---- MODULE Spec2Model ----
(***************************************************************************)
(* BlenderForge command bridge: the host-side listener of addon.py         *)
(* (BlenderForgeServer): per-connection reader threads frame Commands and  *)
(* hand them to the host's main thread through bpy.app.timers, where       *)
(* execute_command runs the auth gate, builds the dispatch table from the  *)
(* live feature flags and calls the handler.                               *)
(***************************************************************************)
EXTENDS Integers, Sequences, FiniteSets, TLC

(***************************************************************************)
(* Bounds of the model.                                                    *)
(***************************************************************************)
NumConns == 2      \* client connections that may be accepted
MaxCmds == 2       \* Commands the clients may send in total
NumToggled == 1    \* feature checkboxes the user clicks while the listener runs

Conns == 1..NumConns

(***************************************************************************)
(* Threads.  The host has one main thread (it runs the timers and the UI); *)
(* _server_loop spawns one reader thread per accepted client.              *)
(***************************************************************************)
MainThread == 0
ReaderThread(c) == c
Threads == {MainThread} \cup {ReaderThread(c) : c \in Conns}

(***************************************************************************)
(* JSON / Python values.                                                   *)
(***************************************************************************)
NoField == "<absent>"     \* the key is not in the JSON mapping
JsonNull == "<null>"      \* the key is there with value null
None == "<None>"          \* Python None
EmptyMap == "{}"          \* a JSON mapping used as params
NotAMap == "[]"           \* a JSON value that is not a mapping

\* dict.get(key): None when the key is absent, the value otherwise
\* (a JSON null is loaded as None).
Get(command, v) == IF v \in {NoField, JsonNull} THEN None ELSE v

\* dict.get(key, default): the default only when the key is absent.
GetDefault(v, default) ==
    IF v = NoField THEN default ELSE IF v = JsonNull THEN None ELSE v

\* Python truthiness of a str-or-None value.
Truthy(v) == v \notin {None, ""}

\* str(v) as used by the f-string of the unknown-type message.
Str(v) == IF v = None THEN "None" ELSE v

(***************************************************************************)
(* The handler groups of _execute_command_internal.                        *)
(***************************************************************************)
Features == {"polyhaven", "hyper3d", "sketchfab", "hunyuan3d"}

base_handlers ==
    {"get_scene_info", "get_object_info", "get_viewport_screenshot",
     "execute_code", "get_telemetry_consent", "get_polyhaven_status",
     "get_hyper3d_status", "get_sketchfab_status", "get_hunyuan3d_status"}

polyhaven_handlers ==
    {"get_polyhaven_categories", "search_polyhaven_assets",
     "download_polyhaven_asset", "set_texture"}

hyper3d_handlers ==
    {"create_rodin_job", "poll_rodin_job_status", "import_generated_asset"}

sketchfab_handlers ==
    {"search_sketchfab_models", "get_sketchfab_model_preview",
     "download_sketchfab_model"}

hunyuan_handlers ==
    {"create_hunyuan_job", "poll_hunyuan_job_status",
     "import_generated_asset_hunyuan"}

ai_handlers ==
    {"generate_material_text", "generate_material_image",
     "list_material_presets", "nlp_create", "nlp_modify",
     "analyze_scene_composition", "get_improvement_suggestions",
     "auto_optimize_lighting", "auto_rig", "auto_weight_paint",
     "add_ik_controls"}

advanced_handlers ==
    {"add_modifier", "configure_modifier", "apply_modifier",
     "boolean_operation", "create_array", "add_bevel", "mirror_object",
     "subdivide_smooth",
     "extrude_faces", "inset_faces", "loop_cut", "merge_vertices",
     "separate_by_loose", "join_objects",
     "insert_keyframe", "set_animation_range", "create_turntable",
     "add_shape_key", "animate_shape_key", "animate_path", "bake_animation",
     "add_rigid_body", "add_cloth_simulation", "add_collision",
     "create_force_field", "bake_physics", "add_particle_system",
     "create_camera", "set_active_camera", "configure_camera",
     "camera_look_at", "set_render_settings", "render_image",
     "render_animation", "setup_studio_render",
     "create_bezier_curve", "create_text_object", "curve_to_mesh",
     "create_pipe",
     "add_constraint", "create_empty", "parent_objects",
     "create_collection", "move_to_collection", "set_collection_visibility",
     "duplicate_linked", "purge_unused", "save_blend", "export_scene",
     "scatter_on_surface", "create_procedural_terrain"}

\* The feature group a flag gates.
GroupOf(f) ==
    CASE f = "polyhaven" -> polyhaven_handlers
      [] f = "hyper3d" -> hyper3d_handlers
      [] f = "sketchfab" -> sketchfab_handlers
      [] f = "hunyuan3d" -> hunyuan_handlers

\* A plausible slip: the Hunyuan group gated by the Hyper3D flag.
handlers_wrong_gate(fl) ==
    base_handlers
      \cup (IF fl["polyhaven"] THEN polyhaven_handlers ELSE {})
      \cup (IF fl["hyper3d"] THEN hyper3d_handlers ELSE {})
      \cup (IF fl["sketchfab"] THEN sketchfab_handlers ELSE {})
      \cup (IF fl["hyper3d"] THEN hunyuan_handlers ELSE {})
      \cup ai_handlers \cup advanced_handlers

\* The keys of the dict `handlers` built for one Command under flags fl.
handlers(fl) ==
    base_handlers
      \cup (IF fl["polyhaven"] THEN polyhaven_handlers ELSE {})
      \cup (IF fl["hyper3d"] THEN hyper3d_handlers ELSE {})
      \cup (IF fl["sketchfab"] THEN sketchfab_handlers ELSE {})
      \cup (IF fl["hunyuan3d"] THEN hunyuan_handlers ELSE {})
      \cup ai_handlers \cup advanced_handlers

AllFlagValues == [Features -> BOOLEAN]
AllHandlerNames == handlers([f \in Features |-> TRUE])
AlwaysOn == base_handlers \cup ai_handlers \cup advanced_handlers

(***************************************************************************)
(* Commands: the JSON documents a reader thread may parse.  A document is  *)
(* a mapping with (possibly absent) type, params and auth_token keys, or a *)
(* JSON value that is not a mapping at all.                                *)
(***************************************************************************)
Token == "tokA"           \* the value secrets.token_hex(32) produced

TypeValues == AllHandlerNames \cup {"nonexistent_op", NoField}
ParamValues == {NoField, EmptyMap, NotAMap}
AuthValues == {NoField, JsonNull, "", Token, "wrong"}

NotAMapping == [kind |-> "list", type |-> NoField, params |-> NoField,
                auth_token |-> NoField]
Unbound == [kind |-> "unbound", type |-> NoField, params |-> NoField,
            auth_token |-> NoField]

AllCommands ==
    [kind : {"map"}, type : TypeValues, params : ParamValues,
     auth_token : AuthValues] \cup {NotAMapping}

(***************************************************************************)
(* Responses.                                                              *)
(***************************************************************************)
ErrorResponse(m) == [status |-> "error", message |-> m]
SuccessResponse(r) == [status |-> "success", result |-> r]
NoResponse == [status |-> "<none>"]

AuthError == ErrorResponse("Invalid authentication token")
\* The unknown-type message without the type.
UnknownTypeBare(t) == ErrorResponse("Unknown command type")

\* The Response of line 417.
UnknownType(t) == ErrorResponse("Unknown command type: " \o Str(t))

(***************************************************************************)
(* What a handler call does is the handler's business: it returns a plain  *)
(* mapping ("ok"), returns a mapping with an error key as get_scene_info   *)
(* does ("soft"), raises as execute_code does ("raise"), or the call       *)
(* handler(params) fails to bind its arguments ("bind", a TypeError      *)
(* raised before the body runs; forced when params is not a mapping), or   *)
(* returns a value json.dumps cannot encode ("unserializable").            *)
(***************************************************************************)
Outcomes == {"ok", "soft", "raise", "bind", "unserializable"}
NoHandler == "<no handler>"

OkResult == [executed |-> TRUE]
SoftResult == [error |-> "boom"]
UnserializableResult == [value |-> "<Vector (0.0, 0.0, 0.0)>"]
SerializeMessage == "Object of type Vector is not JSON serializable"
RaisedMessage == "Code execution error: boom"
BindMessage == "argument binding failed"
AttributeMessage == "'list' object has no attribute 'get'"

\* The classes `except Exception` catches.
ExceptionClasses == {"Exception", "TypeError", "AttributeError"}

Return(resp, invoked, stage, outcome) ==
    [raised |-> FALSE, exc |-> "", message |-> "", resp |-> resp,
     invoked |-> invoked, stage |-> stage, outcome |-> outcome]

Raise(exc, message, invoked, stage, outcome) ==
    [raised |-> TRUE, exc |-> exc, message |-> message, resp |-> NoResponse,
     invoked |-> invoked, stage |-> stage, outcome |-> outcome]

\* result = handler(params), with the handler's behaviour oc.
HandlerCall(name, params, oc) ==
    IF params # EmptyMap \/ oc = "bind"
    THEN Raise("TypeError", BindMessage, name, "lookup", "bind")
    ELSE IF oc = "raise"
    THEN Raise("Exception", RaisedMessage, name, "lookup", "raise")
    ELSE IF oc = "soft"
    THEN Return(SoftResult, name, "lookup", "soft")
    ELSE IF oc = "unserializable"
    THEN Return(UnserializableResult, name, "lookup", "unserializable")
    ELSE Return(OkResult, name, "lookup", "ok")

\* get_polyhaven_status(): reads the live flag.
get_polyhaven_status(fl) == [enabled |-> fl["polyhaven"]]

\* A gate that demands the token from every Command.
AuthRejectsMissing(provided_token, tok) == provided_token # tok

\* The auth gate of line 263.
AuthRejects(provided_token, tok) ==
    Truthy(provided_token) /\ provided_token # tok

\* A dispatcher that turns a returned error key into status error.
DispatchKnownNormalizing(cmd_type, params, oc) ==
    LET r == HandlerCall(cmd_type, params, oc)
    IN  IF r.raised
        THEN Return(ErrorResponse(r.message), r.invoked, r.stage, r.outcome)
        ELSE IF r.resp = SoftResult
        THEN Return(ErrorResponse("boom"), r.invoked, r.stage, r.outcome)
        ELSE Return(SuccessResponse(r.resp), r.invoked, r.stage, r.outcome)

\* The try/except around the handler call (lines 407-415).
DispatchKnown(cmd_type, params, oc) ==
    LET r == HandlerCall(cmd_type, params, oc)
    IN  IF r.raised /\ r.exc \in ExceptionClasses
        THEN Return(ErrorResponse(r.message), r.invoked, r.stage, r.outcome)
        ELSE IF r.raised THEN r
        ELSE Return(SuccessResponse(r.resp), r.invoked, r.stage, r.outcome)

execute_command_internal(command, fl, tok, oc) ==
    IF command.kind # "map"
    THEN Raise("AttributeError", AttributeMessage, NoHandler, "get", "none")
    ELSE
    LET cmd_type == Get(command, command.type)
        params == GetDefault(command.params, EmptyMap)
        provided_token == Get(command, command.auth_token)
    IN  IF AuthRejects(provided_token, tok)
        THEN Return(AuthError, NoHandler, "auth", "none")
        ELSE IF cmd_type = "get_polyhaven_status"
        THEN Return(SuccessResponse(get_polyhaven_status(fl)),
                    "get_polyhaven_status", "shortcut", "ok")
        ELSE IF cmd_type \in handlers(fl)
        THEN DispatchKnown(cmd_type, params, oc)
        ELSE Return(UnknownType(cmd_type), NoHandler, "lookup", "none")

\* execute_command without its try/except.
execute_command_uncaught(command, fl, tok, oc) ==
    execute_command_internal(command, fl, tok, oc)

\* execute_command: the outer try/except Exception of lines 248-254.
execute_command(command, fl, tok, oc) ==
    LET r == execute_command_internal(command, fl, tok, oc)
    IN  IF r.raised /\ r.exc \in ExceptionClasses
        THEN Return(ErrorResponse(r.message), r.invoked, r.stage, r.outcome)
        ELSE r

(***************************************************************************)
(* The listener.                                                           *)
(***************************************************************************)
VARIABLES
    running,      \* BlenderForgeServer.running
    auth_token,   \* BlenderForgeServer.auth_token
    flags,        \* bpy.context.scene.blenderforge_use_<feature>
    conn,         \* per client socket: "idle", "open" (reader running), "closed"
    stream,       \* per client socket: documents sent and not yet recv'd
    buffer,       \* per reader thread: its local `buffer`
    command,      \* per reader thread: its local `command`, which every
                  \* execute_wrapper closure of that thread reads
    timers,       \* bpy.app.timers: the registered execute_wrapper callbacks
    exec,         \* the execute_wrapper calls in progress
    sent,         \* per client socket: Commands the client has written
    answered,     \* per client socket: Responses written by sendall
    pipelined     \* per client socket: the client wrote a Command while the
                  \* Response to an earlier one was still outstanding

VARIABLES
    socket,         \* BlenderForgeServer.socket: None or "listening"
    server_thread,  \* BlenderForgeServer.server_thread: None, or the accept
                    \* thread it refers to, "alive" or "exited"
    environ,        \* os.environ["BLENDERFORGE_AUTH_TOKEN"], NoField if unset
    pc,             \* "join" while stop() waits in server_thread.join
    trace,          \* the start() and stop() calls that have returned
    blenderforge_server,          \* bpy.types.blenderforge_server: 0 when the
                                  \* attribute is not there, else the number
                                  \* of the instance it holds
    blenderforge_server_running,  \* the scene property of that name
    generated,      \* how many tokens secrets.token_hex has produced
    retired,        \* the tokens of listeners that have been stopped
    loops           \* the accept thread (_server_loop) of each listener the
                    \* Start operator has constructed: where it is, and how
                    \* many of its accept calls have returned since its
                    \* listener's running flag was cleared (counted up to 2)

VARIABLES
    docs,       \* the documents one peer has written, back to back
    wire,       \* their bytes that the other peer has not received yet
    side,       \* the receiving peer: "listener" or "client"
    chunks,     \* the bytes the receiver has accumulated (`buffer` of
                \* _handle_client, `chunks` of receive_full_response)
    decoded,    \* the documents the receiver has yielded
    reads,      \* recv calls that returned bytes (counted up to 2)
    straddled,  \* a recv returned bytes of two documents at once
    ended,      \* how the receiver's loop has ended on a zero-byte read:
                \* "no", "closed" (the reader broke out and closed its
                \* socket), or the message receive_full_response raised
    zero_reads  \* recv calls that returned b"" (counted up to 2)

framevars == <<docs, wire, side, chunks, decoded, reads, straddled, ended,
               zero_reads>>

\* No bytes are under way.
NoFrames ==
    /\ docs = <<>>
    /\ wire = <<>>
    /\ side = "listener"
    /\ chunks = <<>>
    /\ decoded = <<>>
    /\ reads = 0
    /\ straddled = FALSE
    /\ ended = "no"
    /\ zero_reads = 0

VARIABLES
    sock,               \* BlenderConnection.sock: None or "connected"
    client_auth_token,  \* BlenderConnection.auth_token
    client_environ,     \* BLENDERFORGE_AUTH_TOKEN in the environment of the
                        \* process the manager lives in, NoField if unset
    call,               \* the manager's call in progress or last returned
    closes,             \* sockets the manager has closed
    send,               \* the manager's send_command in progress or last
                        \* returned
    opened,             \* sockets the manager has opened; the socket in
                        \* sock, if any, is the last of them
    code_environ,       \* BLENDERFORGE_ALLOW_CODE_EXECUTION in the same
                        \* environment, NoField if unset
    CODE_EXECUTION_ENABLED,  \* the module-level constant of server.py
    tool                \* the last call of a tool function

toolvars == <<code_environ, CODE_EXECUTION_ENABLED, tool>>

VARIABLES
    replies,            \* per connection, the Responses the listener has
                        \* written that the client has not read; each
                        \* carries the number of the call it answers
    blender_connection, \* _blender_connection of server.py: None or
                        \* "manager" (the manager whose fields are above)
    polyhaven_enabled,  \* _polyhaven_enabled of server.py
    gbc                 \* the last get_blender_connection call

sessionvars == <<replies, blender_connection, polyhaven_enabled, gbc>>

\* No get_blender_connection call has been made.
NoGet ==
    [n |-> 0, outcome |-> "none", path |-> "none", had |-> FALSE,
     enabled |-> FALSE]

\* server.py as imported: no global manager, PolyHaven taken as disabled.
NoSession ==
    /\ replies = [c \in 1..NumConns |-> <<>>]
    /\ blender_connection = None
    /\ polyhaven_enabled = FALSE
    /\ gbc = NoGet

clientvars == <<sock, client_auth_token, client_environ, call, closes, send,
                opened, toolvars, sessionvars>>

\* No call has been made on the manager.
NoCall ==
    [op |-> "none", at |-> "done", retries |-> <<>>, max_attempts |-> 0,
     attempt |-> 0, sleeps |-> 0, result |-> "None", raised |-> FALSE,
     failure |-> "none", prev |-> "none", n |-> 0]

\* No send_command has been made on the manager.
NoSend ==
    [at |-> "done", type |-> "none", n |-> 0, written |-> <<>>,
     raised |-> "none", message |-> "", result |-> None,
     response |-> [status |-> NoField, result |-> NoField,
                   message |-> NoField],
     had_sock |-> FALSE, opened_before |-> 0, failed |-> "none",
     cause |-> [class |-> "none", message |-> ""],
     prev_failed |-> "none", prev_on |-> 0]

\* str.lower() on the values the toggle takes here.
Lower(v) == IF v \in {"True", "TRUE"} THEN "true" ELSE v

\* os.getenv("BLENDERFORGE_ALLOW_CODE_EXECUTION", "true").lower() == "true"
AllowCodeExecution(env) == Lower(GetDefault(env, "true")) = "true"

\* No tool has been called.  imported: the toggle's value in the
\* environment when server.py was imported.
NoTool(env) ==
    [name |-> "none", n |-> 0, arg |-> "none", env |-> env,
     imported |-> env, failure |-> "none", cause |-> "", sent |-> <<>>,
     value |-> None, raised |-> FALSE, returned |-> ""]

\* server.py has been imported in an environment without the toggle and
\* no tool has been called.
NoTools ==
    /\ code_environ = NoField
    /\ CODE_EXECUTION_ENABLED = AllowCodeExecution(NoField)
    /\ tool = NoTool(NoField)

\* A manager as the dataclass constructs it.
NoClient ==
    /\ sock = None
    /\ client_auth_token = None
    /\ client_environ = NoField
    /\ call = NoCall
    /\ closes = 0
    /\ send = NoSend
    /\ opened = 0
    /\ NoTools
    /\ NoSession

\* The listener's own fields and the process state around it.
lifevars == <<socket, server_thread, environ, pc, trace, blenderforge_server,
              blenderforge_server_running, generated, retired, loops>>

\* Listener objects the Start operator may construct.
MaxInstances == 3

\* No accept thread has been started.
NoLoops == [i \in 1..MaxInstances |-> [pc |-> "none", late |-> 0]]

\* The accept thread of the first listener is at the test of its loop.
FirstLoop == [NoLoops EXCEPT ![1].pc = "check"]

\* The connections and the main-thread queue.
connvars == <<flags, conn, stream, buffer, command, timers, exec, sent,
              answered, pipelined>>

\* What the actions on connections leave alone.
outside == <<lifevars, framevars, clientvars>>

vars == <<running, auth_token, connvars, outside>>

\* The tokens secrets.token_hex(32) produces, in order: each call yields a
\* value no earlier call yielded.
TokenOf(n) == <<"tokA", "tokB", "tokC", "tokD", "tokE", "tokF">>[n]

\* A listener that has been constructed and not started.
Constructed ==
    /\ NoFrames
    /\ NoClient
    /\ socket = None
    /\ server_thread = None
    /\ environ = NoField
    /\ pc = "idle"
    /\ trace = <<>>
    /\ blenderforge_server = 1
    /\ blenderforge_server_running = FALSE
    /\ generated = 1
    /\ retired = {}
    /\ loops = NoLoops

\* A listener that has been constructed and started by the Start operator.
Started ==
    /\ NoFrames
    /\ NoClient
    /\ socket = "listening"
    /\ server_thread = "alive"
    /\ environ = TokenOf(1)
    /\ pc = "idle"
    /\ trace = <<"start">>
    /\ blenderforge_server = 1
    /\ blenderforge_server_running = TRUE
    /\ generated = 1
    /\ retired = {}
    /\ loops = FirstLoop

\* The Commands the clients of the listener specification send: an always-on
\* handler, a feature-gated handler with the right token, and an unknown
\* type.
SampleCommands ==
    {[kind |-> "map", type |-> "get_scene_info", params |-> EmptyMap,
      auth_token |-> NoField],
     [kind |-> "map", type |-> "search_polyhaven_assets", params |-> EmptyMap,
      auth_token |-> Token],
     [kind |-> "map", type |-> "nonexistent_op", params |-> EmptyMap,
      auth_token |-> NoField]}

\* The handler behaviours of the listener specification.
SampleOutcomes == {"ok", "raise"}

Init ==
    /\ running = FALSE
    /\ auth_token = Token
    /\ Constructed
    /\ flags = [f \in Features |-> FALSE]
    /\ conn = [c \in Conns |-> "idle"]
    /\ stream = [c \in Conns |-> <<>>]
    /\ buffer = [c \in Conns |-> <<>>]
    /\ command = [c \in Conns |-> Unbound]
    /\ timers = <<>>
    /\ exec = {}
    /\ sent = [c \in Conns |-> 0]
    /\ answered = [c \in Conns |-> 0]
    /\ pipelined = [c \in Conns |-> FALSE]

\* start(): the bind succeeds, the accept loop is started and the token is
\* published.
start ==
    /\ ~running
    /\ running' = TRUE
    /\ socket' = "listening"
    /\ server_thread' = "alive"
    /\ environ' = auth_token
    /\ UNCHANGED <<auth_token, flags, conn, stream, buffer, command, timers,
                   exec, sent, answered, pipelined>>
    /\ UNCHANGED <<pc, trace, blenderforge_server,
                   blenderforge_server_running, generated, retired, loops>>
    /\ UNCHANGED <<framevars, clientvars>>

\* stop(), from its first line to its last: the running flag is cleared, the
\* listening socket closed, the accept thread joined for at most a second
\* and the published token removed.
stop ==
    /\ running
    /\ running' = FALSE
    /\ socket' = None
    /\ server_thread' = None
    /\ environ' = NoField
    /\ UNCHANGED <<auth_token, flags, conn, stream, buffer, command, timers,
                   exec, sent, answered, pipelined>>
    /\ UNCHANGED <<pc, trace, blenderforge_server,
                   blenderforge_server_running, generated, retired, loops>>
    /\ UNCHANGED <<framevars, clientvars>>

\* _server_loop: accept a client and start its reader thread.
server_loop(c) ==
    /\ running
    /\ conn[c] = "idle"
    /\ conn' = [conn EXCEPT ![c] = "open"]
    /\ UNCHANGED outside
    /\ UNCHANGED <<running, auth_token, flags, stream, buffer, command,
                   timers, exec, sent, answered, pipelined>>

RECURSIVE SumUpTo(_, _)
SumUpTo(f, n) == IF n = 0 THEN 0 ELSE f[n] + SumUpTo(f, n - 1)
TotalSent == SumUpTo(sent, NumConns)

\* A client writes one Command on its socket.
ClientSend(c, cmd) ==
    /\ conn[c] = "open"
    /\ TotalSent < MaxCmds
    /\ stream' = [stream EXCEPT ![c] = Append(@, cmd)]
    /\ sent' = [sent EXCEPT ![c] = @ + 1]
    /\ pipelined' = [pipelined EXCEPT ![c] = @ \/ sent[c] > answered[c]]
    /\ UNCHANGED outside
    /\ UNCHANGED <<running, auth_token, flags, conn, buffer, command, timers,
                   exec, answered>>

\* json.loads(buffer): succeeds on exactly one complete document; two
\* documents run together raise JSONDecodeError (extra data).
Parses(buf) == Len(buf) = 1

\* The flags the dispatch table would be built from if it were built once,
\* when the add-on registers its properties (all flags at their default).
DispatchFlagsAtRegistration(e) == [f \in Features |-> FALSE]

\* The flags the dispatch table of a scheduled Command is built from:
\* bpy.context.scene is read when the wrapper runs.
DispatchFlags(e) == flags

\* The thread a callback would run on if the reader called it inline.
RunsOnReader(e) == ReaderThread(e.conn)

\* The thread that runs a callback registered with bpy.app.timers.
RunsOn(e) == MainThread

\* _handle_client: one iteration of the reader loop.  recv returns the next
\* n documents of the stream; they are appended to buffer; if buffer parses,
\* command is bound, buffer is reset and execute_wrapper is registered.  The
\* loop condition then reads running.
handle_client(c, n) ==
    /\ conn[c] \in {"open", "eof"}
    /\ n \in 1..Len(stream[c])
    /\ LET data == SubSeq(stream[c], 1, n)
           buf == buffer[c] \o data
       IN  /\ stream' = [stream EXCEPT ![c] = SubSeq(@, n + 1, Len(@))]
           /\ IF Parses(buf)
              THEN /\ command' = [command EXCEPT ![c] = buf[1]]
                   /\ buffer' = [buffer EXCEPT ![c] = <<>>]
                   /\ timers' = Append(timers,
                          [conn |-> c, cmd |-> buf[1], toggled |-> FALSE])
              ELSE /\ buffer' = [buffer EXCEPT ![c] = buf]
                   /\ UNCHANGED <<command, timers>>
    /\ conn' = [conn EXCEPT ![c] = IF running THEN @ ELSE "closed"]
    /\ UNCHANGED outside
    /\ UNCHANGED <<running, auth_token, flags, exec, sent, answered,
                   pipelined>>

\* The client closes its socket (it gave up waiting, or it is done).
ClientClose(c) ==
    /\ conn[c] = "open"
    /\ conn' = [conn EXCEPT ![c] = "eof"]
    /\ UNCHANGED outside
    /\ UNCHANGED <<running, auth_token, flags, stream, buffer, command,
                   timers, exec, sent, answered, pipelined>>

\* _handle_client: recv returns b"" once the peer has closed and every byte
\* it sent has been read; the loop breaks and finally closes the socket.
handle_client_eof(c) ==
    /\ conn[c] = "eof"
    /\ stream[c] = <<>>
    /\ conn' = [conn EXCEPT ![c] = "closed"]
    /\ UNCHANGED outside
    /\ UNCHANGED <<running, auth_token, flags, stream, buffer, command,
                   timers, exec, sent, answered, pipelined>>

Busy(t) == \E x \in exec : x.thread = t

\* The index of the first registered callback that thread t runs (0: none).
FirstTimer(t) ==
    LET idx == {i \in 1..Len(timers) : RunsOn(timers[i]) = t}
    IN  IF idx = {} THEN 0
        ELSE CHOOSE i \in idx : \A j \in idx : i <= j

RemoveAt(q, i) == SubSeq(q, 1, i - 1) \o SubSeq(q, i + 1, Len(q))

\* execute_wrapper starts: it reads `command` from the enclosing frame and
\* calls execute_command, which runs up to and into the handler.
WrapperBegin(t, oc) ==
    /\ ~Busy(t)
    /\ FirstTimer(t) # 0
    /\ LET i == FirstTimer(t)
           e == timers[i]
           cmd == command[e.conn]
       IN  /\ timers' = RemoveAt(timers, i)
           /\ exec' = exec \cup
                {[thread |-> t, conn |-> e.conn, cmd |-> cmd,
                  sched |-> e.cmd, toggled |-> e.toggled,
                  res |-> execute_command(cmd, DispatchFlags(e), auth_token,
                                          oc)]}
    /\ UNCHANGED outside
    /\ UNCHANGED <<running, auth_token, flags, conn, stream, buffer, command,
                   sent, answered, pipelined>>

\* A wrapper that returns an interval: the timer stays registered.
execute_wrapper_return_interval(x) == "0.1"

\* execute_wrapper returns None: the timer is unregistered.
execute_wrapper_return(x) == None

\* json.dumps(response): fails on a result it cannot encode.
Serializable(resp) ==
    ~(resp.status = "success" /\ resp.result = UnserializableResult)

\* A wrapper without its own try/except: an exception of json.dumps leaves
\* the callback and nothing is written.
execute_wrapper_response_unguarded(res) ==
    IF res.raised \/ ~Serializable(res.resp) THEN NoResponse ELSE res.resp

\* The document execute_wrapper hands to sendall: the Response of
\* execute_command, or, when execute_command or json.dumps raised, the error
\* Response built in the wrapper's own except clause.
execute_wrapper_response(res) ==
    IF res.raised THEN ErrorResponse(res.message)
    ELSE IF ~Serializable(res.resp) THEN ErrorResponse(SerializeMessage)
    ELSE res.resp

\* A wrapper that writes on the most recently accepted socket it can find
\* instead of the one its reader was given.
WriteTargetShared(x) ==
    IF \E c \in Conns : conn[c] = "open"
    THEN CHOOSE c \in Conns :
            conn[c] = "open" /\ \A d \in Conns : conn[d] = "open" => d <= c
    ELSE x.conn

\* The socket execute_wrapper writes on: `client`, the parameter of the
\* _handle_client call that parsed the Command.
WriteTarget(x) == x.conn

\* A wrapper whose except clause writes a second document after the first.
ResponsesWrittenTwice(ok, doc) == IF doc # NoResponse THEN 2 ELSE 0

\* The number of documents one run of execute_wrapper writes: the one
\* sendall of the path taken, if it succeeds.
ResponsesWritten(ok, doc) == IF ok /\ doc # NoResponse THEN 1 ELSE 0

\* The outcomes of client.sendall(...) on socket c: it succeeds on an open
\* connection, raises on a socket the reader has closed, and does either
\* once the peer has closed its end.
sendall(c) ==
    IF conn[c] = "open" THEN {TRUE}
    ELSE IF conn[c] = "eof" THEN {TRUE, FALSE}
    ELSE {FALSE}

\* execute_wrapper finishes: the handler has returned, the Response is
\* serialized and written with client.sendall; a failed write is swallowed.
WrapperEnd(t) ==
    /\ \E x \in exec :
        /\ x.thread = t
        /\ exec' = exec \ {x}
        /\ \E ok \in sendall(WriteTarget(x)) :
             answered' = [answered EXCEPT ![WriteTarget(x)] =
                 @ + ResponsesWritten(ok, execute_wrapper_response(x.res))]
        /\ timers' = IF execute_wrapper_return(x) = None THEN timers
                      ELSE Append(timers, [conn |-> x.conn, cmd |-> x.sched,
                                           toggled |-> x.toggled])
    /\ UNCHANGED outside
    /\ UNCHANGED <<running, auth_token, flags, conn, stream, buffer, command,
                   sent, pipelined>>

\* The checkboxes of the panel, in the order it draws them.
PanelFeatures == <<"polyhaven", "hyper3d", "sketchfab", "hunyuan3d">>
ToggledFeatures ==
    {PanelFeatures[i] : i \in 1..(IF NumToggled < 4 THEN NumToggled ELSE 4)}

\* The user toggles a feature checkbox in the panel (on the main thread,
\* hence between two timer callbacks).
Toggle(f) ==
    /\ ~Busy(MainThread)
    /\ flags' = [flags EXCEPT ![f] = ~@]
    /\ timers' = [i \in 1..Len(timers) |-> [timers[i] EXCEPT !.toggled = TRUE]]
    /\ UNCHANGED outside
    /\ UNCHANGED <<running, auth_token, conn, stream, buffer, command, exec,
                   sent, answered, pipelined>>

Next ==
    \/ start
    \/ stop
    \/ \E c \in Conns : server_loop(c)
    \/ \E c \in Conns, cmd \in SampleCommands : ClientSend(c, cmd)
    \/ \E c \in Conns, n \in 1..MaxCmds : handle_client(c, n)
    \/ \E t \in Threads, oc \in SampleOutcomes : WrapperBegin(t, oc)
    \/ \E t \in Threads : WrapperEnd(t)
    \/ \E f \in ToggledFeatures : Toggle(f)

Spec == Init /\ [][Next]_vars

(***************************************************************************)
(* execute_command as a function of its inputs: every Command, every       *)
(* combination of feature flags and every handler behaviour.  One Command  *)
(* has been parsed and scheduled; the wrapper runs it.                     *)
(***************************************************************************)
InitExec ==
    /\ running = TRUE
    /\ auth_token = Token
    /\ Started
    /\ flags \in AllFlagValues
    /\ conn = [c \in Conns |-> IF c = 1 THEN "open" ELSE "idle"]
    /\ stream = [c \in Conns |-> <<>>]
    /\ buffer = [c \in Conns |-> <<>>]
    /\ command \in {[c \in Conns |-> IF c = 1 THEN k ELSE Unbound] :
                      k \in AllCommands}
    /\ timers = <<[conn |-> 1, cmd |-> command[1], toggled |-> FALSE]>>
    /\ exec = {}
    /\ sent = [c \in Conns |-> IF c = 1 THEN 1 ELSE 0]
    /\ answered = [c \in Conns |-> 0]
    /\ pipelined = [c \in Conns |-> FALSE]

NextExec ==
    \/ \E t \in Threads, oc \in Outcomes : WrapperBegin(t, oc)
    \/ \E t \in Threads : WrapperEnd(t)

SpecExec == InitExec /\ [][NextExec]_vars

(***************************************************************************)
(* A started listener whose clients may close their sockets at any time:   *)
(* before their Command is read, while it waits or runs on the main        *)
(* thread, or after its Response.  The feature flags stay as they are and  *)
(* the handlers return.                                                    *)
(***************************************************************************)
InitDisconnect ==
    /\ running = TRUE
    /\ auth_token = Token
    /\ Started
    /\ flags = [f \in Features |-> FALSE]
    /\ conn = [c \in Conns |-> "idle"]
    /\ stream = [c \in Conns |-> <<>>]
    /\ buffer = [c \in Conns |-> <<>>]
    /\ command = [c \in Conns |-> Unbound]
    /\ timers = <<>>
    /\ exec = {}
    /\ sent = [c \in Conns |-> 0]
    /\ answered = [c \in Conns |-> 0]
    /\ pipelined = [c \in Conns |-> FALSE]

NextDisconnect ==
    \/ \E c \in Conns : server_loop(c)
    \/ \E c \in Conns, cmd \in SampleCommands : ClientSend(c, cmd)
    \/ \E c \in Conns, n \in 1..MaxCmds : handle_client(c, n)
    \/ \E c \in Conns : ClientClose(c)
    \/ \E c \in Conns : handle_client_eof(c)
    \/ \E t \in Threads : WrapperBegin(t, "ok")
    \/ \E t \in Threads : WrapperEnd(t)

SpecDisconnect == InitDisconnect /\ [][NextDisconnect]_vars

(***************************************************************************)
(* One client on an established connection whose every Command fails, in   *)
(* each of the ways a Command can fail: its token is wrong, its type is    *)
(* unknown, its handler raises, or its handler returns a value json.dumps  *)
(* cannot encode.                                                          *)
(***************************************************************************)
FailingCommands ==
    {[kind |-> "map", type |-> "get_scene_info", params |-> EmptyMap,
      auth_token |-> "wrong"],
     [kind |-> "map", type |-> "nonexistent_op", params |-> EmptyMap,
      auth_token |-> NoField],
     [kind |-> "map", type |-> "execute_code", params |-> EmptyMap,
      auth_token |-> Token]}

FailingOutcomes == {"raise", "bind", "unserializable"}

InitSession ==
    /\ running = TRUE
    /\ auth_token = Token
    /\ Started
    /\ flags = [f \in Features |-> FALSE]
    /\ conn = [c \in Conns |-> IF c = 1 THEN "open" ELSE "idle"]
    /\ stream = [c \in Conns |-> <<>>]
    /\ buffer = [c \in Conns |-> <<>>]
    /\ command = [c \in Conns |-> Unbound]
    /\ timers = <<>>
    /\ exec = {}
    /\ sent = [c \in Conns |-> 0]
    /\ answered = [c \in Conns |-> 0]
    /\ pipelined = [c \in Conns |-> FALSE]

NextSession ==
    \/ \E cmd \in FailingCommands : ClientSend(1, cmd)
    \/ \E n \in 1..MaxCmds : handle_client(1, n)
    \/ \E t \in Threads, oc \in FailingOutcomes : WrapperBegin(t, oc)
    \/ \E t \in Threads : WrapperEnd(t)

SpecSession == InitSession /\ [][NextSession]_vars

(***************************************************************************)
(* The life cycle of one listener object under any sequence of start() and *)
(* stop() calls.  A call is made when the previous one has returned (both  *)
(* are called on the main thread); the accept thread runs beside them.     *)
(***************************************************************************)
MaxCalls == 6

InitLife ==
    /\ running = FALSE
    /\ auth_token = TokenOf(1)
    /\ Constructed
    /\ flags = [f \in Features |-> FALSE]
    /\ conn = [c \in Conns |-> "idle"]
    /\ stream = [c \in Conns |-> <<>>]
    /\ buffer = [c \in Conns |-> <<>>]
    /\ command = [c \in Conns |-> Unbound]
    /\ timers = <<>>
    /\ exec = {}
    /\ sent = [c \in Conns |-> 0]
    /\ answered = [c \in Conns |-> 0]
    /\ pipelined = [c \in Conns |-> FALSE]

\* A start() whose except clause only prints: the flag set at its first
\* line stays.
running_after_failed_bind_kept == TRUE

\* self.running after a start() whose bind failed: the except clause
\* calls stop(), which clears the flag start() had set.
running_after_failed_bind == FALSE

\* start() on the listener object.  bind_ok: socket creation, bind and
\* listen succeed; otherwise the except clause calls stop(), which finds
\* whatever start() had set up by then.
start_call(bind_ok) ==
    /\ pc = "idle"
    /\ Len(trace) < MaxCalls
    /\ IF running
       THEN UNCHANGED <<running, socket, server_thread, environ, pc>>
       ELSE IF bind_ok
       THEN /\ running' = TRUE
            /\ socket' = "listening"
            /\ server_thread' = "alive"
            /\ environ' = auth_token
            /\ pc' = pc
       ELSE /\ running' = running_after_failed_bind
            /\ socket' = None
            /\ IF server_thread = "alive"
               THEN /\ pc' = "join"
                    /\ UNCHANGED <<server_thread, environ>>
               ELSE /\ pc' = pc
                    /\ server_thread' = None
                    /\ environ' = NoField
    /\ trace' = Append(trace, "start")
    /\ UNCHANGED <<framevars, clientvars>>
    /\ UNCHANGED <<auth_token, connvars, blenderforge_server,
                   blenderforge_server_running, generated, retired, loops>>

\* stop() up to server_thread.join: the flag is cleared and the socket
\* closed; with no live accept thread the rest of stop() follows at once.
stop_call ==
    /\ pc = "idle"
    /\ Len(trace) < MaxCalls
    /\ running' = FALSE
    /\ socket' = None
    /\ IF server_thread = "alive"
       THEN /\ pc' = "join"
            /\ UNCHANGED <<server_thread, environ, trace>>
       ELSE /\ pc' = pc
            /\ server_thread' = None
            /\ environ' = NoField
            /\ trace' = Append(trace, "stop")
    /\ UNCHANGED <<framevars, clientvars>>
    /\ UNCHANGED <<auth_token, connvars, blenderforge_server,
                   blenderforge_server_running, generated, retired, loops>>

\* A join without a timeout returns only when the thread has ended.
JoinReturnsUntimed(alive) == ~alive

\* server_thread.join(timeout=1.0) returns when the thread has ended or the
\* second is over, whichever comes first.
JoinReturns(alive) == TRUE

\* stop() from the return of join to its end.
stop_join ==
    /\ pc = "join"
    /\ JoinReturns(server_thread = "alive")
    /\ server_thread' = None
    /\ environ' = NoField
    /\ pc' = "idle"
    /\ trace' = Append(trace, "stop")
    /\ UNCHANGED <<framevars, clientvars>>
    /\ UNCHANGED <<running, auth_token, socket, connvars,
                   blenderforge_server, blenderforge_server_running,
                   generated, retired, loops>>

\* _server_loop: the accept thread finds running false and returns.
server_loop_exit ==
    /\ server_thread = "alive"
    /\ ~running
    /\ server_thread' = "exited"
    /\ UNCHANGED <<framevars, clientvars>>
    /\ UNCHANGED <<running, auth_token, socket, environ, pc, trace, connvars,
                   blenderforge_server, blenderforge_server_running,
                   generated, retired, loops>>

NextLife ==
    \/ \E bind_ok \in BOOLEAN : start_call(bind_ok)
    \/ stop_call
    \/ stop_join
    \/ server_loop_exit

\* The timeout of the join is a second of wall-clock time: once stop() is
\* in the join, its return is only a matter of time.
SpecLife == InitLife /\ [][NextLife]_vars /\ WF_vars(stop_join)

(***************************************************************************)
(* Framing, byte by byte.  A byte is a one-character string; the ASCII     *)
(* text json.dumps produces is a sequence of them.  JSON values are trees: *)
(* [t |-> "str", v |-> characters], [t |-> "num", v |-> digits] and        *)
(* [t |-> "obj", v |-> sequence of <<key characters, value>>].             *)
(***************************************************************************)
JStr(chars) == [t |-> "str", v |-> chars]
JNum(digits) == [t |-> "num", v |-> digits]
JObj(members) == [t |-> "obj", v |-> members]

Digits == {"0", "1", "2"}
Quote == "\""

\* json.dumps(value) with the default separators ", " and ": ".
RECURSIVE dumps(_)
RECURSIVE dumps_members(_, _)
dumps_members(members, i) ==
    IF i > Len(members) THEN <<>>
    ELSE (IF i = 1 THEN <<>> ELSE <<",", " ">>)
         \o <<Quote>> \o members[i][1] \o <<Quote, ":", " ">>
         \o dumps(members[i][2])
         \o dumps_members(members, i + 1)
dumps(value) ==
    IF value.t = "str" THEN <<Quote>> \o value.v \o <<Quote>>
    ELSE IF value.t = "num" THEN value.v
    ELSE <<"{">> \o dumps_members(value.v, 1) \o <<"}">>

\* The JSON scanner: every function returns the value read and the index
\* after it, or fails.
ParseFails == [ok |-> FALSE, val |-> JStr(<<>>), next |-> 0]
ParseOk(val, next) == [ok |-> TRUE, val |-> val, next |-> next]

RECURSIVE SkipWs(_, _)
SkipWs(s, i) == IF i <= Len(s) /\ s[i] = " " THEN SkipWs(s, i + 1) ELSE i

\* The index of the quote that closes a string begun before i (0: none).
RECURSIVE ScanString(_, _)
ScanString(s, i) ==
    IF i > Len(s) THEN 0
    ELSE IF s[i] = Quote THEN i
    ELSE ScanString(s, i + 1)

\* The index after the digits that begin at i.
RECURSIVE ScanDigits(_, _)
ScanDigits(s, i) ==
    IF i <= Len(s) /\ s[i] \in Digits THEN ScanDigits(s, i + 1) ELSE i

RECURSIVE ParseValue(_, _)
RECURSIVE ParseMembers(_, _, _)
ParseMembers(s, i, members) ==
    LET key == ParseValue(s, i)
    IN  IF ~key.ok \/ key.val.t # "str" THEN ParseFails
        ELSE
        LET c == SkipWs(s, key.next)
        IN  IF c > Len(s) \/ s[c] # ":" THEN ParseFails
            ELSE
            LET val == ParseValue(s, c + 1)
            IN  IF ~val.ok THEN ParseFails
                ELSE
                LET d == SkipWs(s, val.next)
                    more == Append(members, <<key.val.v, val.val>>)
                IN  IF d > Len(s) THEN ParseFails
                    ELSE IF s[d] = "}" THEN ParseOk(JObj(more), d + 1)
                    ELSE IF s[d] = "," THEN ParseMembers(s, d + 1, more)
                    ELSE ParseFails
ParseValue(s, i0) ==
    LET i == SkipWs(s, i0)
    IN  IF i > Len(s) THEN ParseFails
        ELSE IF s[i] = Quote
        THEN LET j == ScanString(s, i + 1)
             IN  IF j = 0 THEN ParseFails
                 ELSE ParseOk(JStr(SubSeq(s, i + 1, j - 1)), j + 1)
        ELSE IF s[i] \in Digits
        THEN LET j == ScanDigits(s, i)
             IN  ParseOk(JNum(SubSeq(s, i, j - 1)), j)
        ELSE IF s[i] = "{"
        THEN LET k == SkipWs(s, i + 1)
             IN  IF k <= Len(s) /\ s[k] = "}"
                 THEN ParseOk(JObj(<<>>), k + 1)
                 ELSE ParseMembers(s, k, <<>>)
        ELSE ParseFails

\* A decoder that takes the first value of the text and ignores what
\* follows it (json.JSONDecoder.raw_decode).
loads_first_value(s) ==
    LET r == ParseValue(s, 1)
    IN  IF r.ok THEN r ELSE ParseFails

\* json.loads(text): the text must be one value and nothing else but
\* whitespace; anything else raises JSONDecodeError.
loads(s) ==
    LET r == ParseValue(s, 1)
    IN  IF r.ok /\ SkipWs(s, r.next) = Len(s) + 1 THEN r ELSE ParseFails

\* How many documents are written back to back.
MaxDocs == 2

\* Commands, as the client's send_command builds them.
FrameCommands ==
    {JObj(<< <<<<"t">>, JStr(<<"a">>)>>, <<<<"p">>, JObj(<<>>)>> >>),
     JObj(<< <<<<"t">>, JStr(<<"b">>)>>,
             <<<<"p">>, JObj(<< <<<<"n">>, JNum(<<"1", "2">>)>> >>)>> >>)}

\* Responses, as execute_command builds them.
FrameResponses ==
    {JObj(<< <<<<"s">>, JStr(<<"o", "k">>)>>, <<<<"r">>, JObj(<<>>)>> >>),
     JObj(<< <<<<"s">>, JStr(<<"e">>)>>, <<<<"m">>, JStr(<<"x", " ", "1">>)>> >>)}

RECURSIVE SeqsUpTo(_, _)
SeqsUpTo(S, n) ==
    IF n = 0 THEN {<<>>}
    ELSE LET shorter == SeqsUpTo(S, n - 1)
         IN  shorter \cup {Append(q, x) : q \in shorter, x \in S}

RECURSIVE Concat(_, _)
Concat(ds, i) ==
    IF i > Len(ds) THEN <<>> ELSE dumps(ds[i]) \o Concat(ds, i + 1)

InitFrame ==
    /\ side \in {"listener", "client"}
    /\ docs \in SeqsUpTo(IF side = "listener" THEN FrameCommands
                           ELSE FrameResponses, MaxDocs) \ {<<>>}
    /\ wire = Concat(docs, 1)
    /\ chunks = <<>>
    /\ decoded = <<>>
    /\ reads = 0
    /\ straddled = FALSE
    /\ ended = "no"
    /\ zero_reads = 0
    /\ NoClient
    /\ running = TRUE
    /\ auth_token = TokenOf(1)
    /\ socket = "listening"
    /\ server_thread = "alive"
    /\ environ = TokenOf(1)
    /\ pc = "idle"
    /\ trace = <<"start">>
    /\ blenderforge_server = 1
    /\ blenderforge_server_running = TRUE
    /\ generated = 1
    /\ retired = {}
    /\ loops = FirstLoop
    /\ flags = [f \in Features |-> FALSE]
    /\ conn = [c \in Conns |-> IF c = 1 THEN "open" ELSE "idle"]
    /\ stream = [c \in Conns |-> <<>>]
    /\ buffer = [c \in Conns |-> <<>>]
    /\ command = [c \in Conns |-> Unbound]
    /\ timers = <<>>
    /\ exec = {}
    /\ sent = [c \in Conns |-> 0]
    /\ answered = [c \in Conns |-> 0]
    /\ pipelined = [c \in Conns |-> FALSE]

\* The bytes already received: the documents written, less the wire.
Received == Len(Concat(docs, 1)) - Len(wire)

\* The ends of the documents on the wire, as offsets into the bytes written.
RECURSIVE Boundary(_, _)
Boundary(ds, i) == IF i = 0 THEN 0 ELSE Boundary(ds, i - 1) + Len(dumps(ds[i]))

\* A recv that returns bytes from..to of the wire takes bytes of two
\* documents.
Straddles(from, to) ==
    \E i \in 1..(Len(docs) - 1) :
        from <= Boundary(docs, i) /\ Boundary(docs, i) < to

\* An accumulator that is not reset when its content has parsed.
buffer_after_parse_kept(buf) == buf

\* buffer = b"" after a successful json.loads.
buffer_after_parse(buf) == <<>>

\* _handle_client, byte by byte: recv returns the next n bytes, they are
\* appended to buffer, and if buffer parses the Command is taken and buffer
\* reset; a JSONDecodeError leaves buffer as it is for the next recv.
handle_client_recv(n) ==
    /\ side = "listener"
    /\ ended = "no"
    /\ n \in 1..Len(wire)
    /\ LET buf == chunks \o SubSeq(wire, 1, n)
           r == loads(buf)
       IN  /\ wire' = SubSeq(wire, n + 1, Len(wire))
           /\ chunks' = IF r.ok THEN buffer_after_parse(buf) ELSE buf
           /\ decoded' = IF r.ok THEN Append(decoded, r.val) ELSE decoded
    /\ reads' = IF reads < 2 THEN reads + 1 ELSE reads
    /\ straddled' = (straddled \/ Straddles(Received + 1, Received + n))
    /\ UNCHANGED <<docs, side, ended, zero_reads, running, auth_token,
                   connvars, lifevars, clientvars>>

\* receive_full_response, one turn of its loop: recv returns the next n
\* bytes, the chunk is appended, and if the chunks joined parse they are
\* returned (and send_command decodes them); otherwise the loop goes on.
receive_full_response(n) ==
    /\ side = "client"
    /\ ended = "no"
    /\ decoded = <<>>
    /\ n \in 1..Len(wire)
    /\ LET data == chunks \o SubSeq(wire, 1, n)
           r == loads(data)
       IN  /\ wire' = SubSeq(wire, n + 1, Len(wire))
           /\ chunks' = IF r.ok THEN <<>> ELSE data
           /\ decoded' = IF r.ok THEN <<loads(data).val>> ELSE decoded
    /\ reads' = IF reads < 2 THEN reads + 1 ELSE reads
    /\ straddled' = (straddled \/ Straddles(Received + 1, Received + n))
    /\ UNCHANGED <<docs, side, ended, zero_reads, running, auth_token,
                   connvars, lifevars, clientvars>>

NextFrame ==
    \/ \E n \in 1..Len(wire) : handle_client_recv(n)
    \/ \E n \in 1..Len(wire) : receive_full_response(n)

SpecFrame == InitFrame /\ [][NextFrame]_vars

(***************************************************************************)
(* The peer closes its end after writing some of its bytes: once the wire  *)
(* is empty, recv returns b"".                                             *)
(***************************************************************************)
MaxClosureDocs == 1

\* A reader that takes b"" for "nothing yet" and reads on.
zero_read_ends_never == FALSE

\* `if not data: break` in _handle_client, `if not chunk:` in
\* receive_full_response: a zero-byte read ends the loop.
zero_read_ends == TRUE

\* _handle_client: recv returns b""; the loop is left, nothing is parsed or
\* registered from the accumulator, and finally closes the client socket.
handle_client_zero ==
    /\ side = "listener"
    /\ wire = <<>>
    /\ ended = "no"
    /\ zero_reads < 2
    /\ zero_reads' = zero_reads + 1
    /\ IF zero_read_ends
       THEN /\ ended' = "closed"
            /\ conn' = [conn EXCEPT ![1] = "closed"]
       ELSE /\ ended' = ended
            /\ conn' = conn
    /\ UNCHANGED <<docs, wire, side, chunks, decoded, reads, straddled>>
    /\ UNCHANGED <<stream, buffer, command, timers, exec, sent, answered,
                   pipelined, flags>>
    /\ UNCHANGED <<running, auth_token, lifevars, clientvars>>

\* receive_full_response: recv returns b"".  With no chunk yet it raises;
\* otherwise the loop is left and the chunks are parsed once more: they are
\* returned if they parse, "Incomplete JSON response received" is raised if
\* not.
receive_full_response_zero ==
    /\ side = "client"
    /\ wire = <<>>
    /\ ended = "no"
    /\ decoded = <<>>
    /\ zero_reads < 2
    /\ zero_reads' = zero_reads + 1
    /\ IF ~zero_read_ends
       THEN UNCHANGED <<ended, decoded, chunks>>
       ELSE IF chunks = <<>>
       THEN /\ ended' = "Connection closed before receiving any data"
            /\ UNCHANGED <<decoded, chunks>>
       ELSE IF loads(chunks).ok
       THEN /\ decoded' = <<loads(chunks).val>>
            /\ chunks' = <<>>
            /\ ended' = ended
       ELSE /\ ended' = "Incomplete JSON response received"
            /\ UNCHANGED <<decoded, chunks>>
    /\ UNCHANGED <<docs, wire, side, reads, straddled>>
    /\ UNCHANGED <<running, auth_token, connvars, lifevars, clientvars>>

\* The peer has written the first k bytes of its documents and closed.
InitClosure ==
    /\ side \in {"listener", "client"}
    /\ docs \in SeqsUpTo(IF side = "listener" THEN FrameCommands
                           ELSE FrameResponses, MaxClosureDocs) \ {<<>>}
    /\ \E k \in 0..Len(Concat(docs, 1)) :
           wire = SubSeq(Concat(docs, 1), 1, k)
    /\ chunks = <<>>
    /\ decoded = <<>>
    /\ reads = 0
    /\ straddled = FALSE
    /\ ended = "no"
    /\ zero_reads = 0
    /\ NoClient
    /\ running = TRUE
    /\ auth_token = TokenOf(1)
    /\ socket = "listening"
    /\ server_thread = "alive"
    /\ environ = TokenOf(1)
    /\ pc = "idle"
    /\ trace = <<"start">>
    /\ blenderforge_server = 1
    /\ blenderforge_server_running = TRUE
    /\ generated = 1
    /\ retired = {}
    /\ loops = FirstLoop
    /\ flags = [f \in Features |-> FALSE]
    /\ conn = [c \in Conns |-> IF c = 1 THEN "open" ELSE "idle"]
    /\ stream = [c \in Conns |-> <<>>]
    /\ buffer = [c \in Conns |-> <<>>]
    /\ command = [c \in Conns |-> Unbound]
    /\ timers = <<>>
    /\ exec = {}
    /\ sent = [c \in Conns |-> 0]
    /\ answered = [c \in Conns |-> 0]
    /\ pipelined = [c \in Conns |-> FALSE]

NextClosure ==
    \/ \E n \in 1..Len(wire) : handle_client_recv(n)
    \/ \E n \in 1..Len(wire) : receive_full_response(n)
    \/ handle_client_zero
    \/ receive_full_response_zero

SpecClosure == InitClosure /\ [][NextClosure]_vars

(***************************************************************************)
(* The add-on's Start and Stop operators on the one side and a connection  *)
(* manager (BlenderConnection) on the other.  The operators run on the     *)
(* main thread, one at a time; the manager's calls come one at a time too  *)
(* (one caller), and a connect() is followed step by step through its      *)
(* attempts and the sleeps between them.                                   *)
(***************************************************************************)
MaxClientCalls == 3
MaxRetriesArg == 2

max_retries == 3

\* A Stop operator that stops the listener and keeps the object.
InstanceAfterStopKept(inst) == inst

\* del bpy.types.blenderforge_server: the attribute is gone.
InstanceAfterStop(inst) == 0

\* BLENDERFORGE_OT_StartServer.execute: construct a listener if there is
\* none (its token is generated by the constructor), call start() on it and
\* set the scene property.  start() returns at once on a running listener;
\* when bind_ok is false its except clause has called stop().
StartServer(bind_ok) ==
    /\ pc = "idle"
    /\ blenderforge_server = 0 => generated < MaxInstances
    /\ LET create == blenderforge_server = 0
           token == IF create THEN TokenOf(generated + 1) ELSE auth_token
           was_running == ~create /\ running
       IN  /\ blenderforge_server' =
                 IF create THEN generated + 1 ELSE blenderforge_server
           /\ generated' = IF create THEN generated + 1 ELSE generated
           /\ auth_token' = token
           /\ IF was_running
              THEN UNCHANGED <<running, socket, server_thread, environ>>
              ELSE IF bind_ok
              THEN /\ running' = TRUE
                   /\ socket' = "listening"
                   /\ server_thread' = "alive"
                   /\ environ' = token
              ELSE /\ running' = FALSE
                   /\ socket' = None
                   /\ server_thread' = None
                   /\ environ' = NoField
           /\ loops' = IF ~was_running /\ bind_ok
                        THEN [loops EXCEPT ![blenderforge_server'].pc =
                                               "begin"]
                        ELSE loops
    /\ blenderforge_server_running' = TRUE
    /\ UNCHANGED <<pc, trace, retired, connvars, framevars, clientvars>>

\* BLENDERFORGE_OT_StopServer.execute: stop() on the listener if there is
\* one, delete the attribute, clear the scene property.
StopServer ==
    /\ pc = "idle"
    /\ IF blenderforge_server # 0
       THEN /\ running' = FALSE
            /\ socket' = None
            /\ server_thread' = None
            /\ environ' = NoField
            /\ retired' = IF running THEN retired \cup {auth_token}
                           ELSE retired
            /\ blenderforge_server' = InstanceAfterStop(blenderforge_server)
            /\ auth_token' = IF blenderforge_server' = 0 THEN NoField
                              ELSE auth_token
       ELSE UNCHANGED <<running, socket, server_thread, environ, retired,
                        blenderforge_server, auth_token>>
    /\ blenderforge_server_running' = FALSE
    /\ UNCHANGED <<pc, trace, generated, loops, connvars, framevars,
                   clientvars>>

\* os.getenv("BLENDERFORGE_AUTH_TOKEN") in the manager's process.
getenv == IF client_environ = NoField THEN None ELSE client_environ

\* The argument of connect: <<>> for None (the default), <<k>> for the
\* integer k.
RetryArgs == {<<>>} \cup {<<k>> : k \in 0..MaxRetriesArg}

\* connect(retries) is called: a manager that has a socket returns True at
\* once; otherwise the loop over range(max_attempts) is entered.
connect(retries) ==
    /\ call.at = "done"
    /\ call.n < MaxClientCalls
    /\ LET max_attempts == IF retries # <<>> THEN retries[1] ELSE max_retries
       IN  call' = [op |-> "connect", retries |-> retries,
                    max_attempts |-> IF sock # None THEN 0 ELSE max_attempts,
                    attempt |-> 0, sleeps |-> 0, raised |-> FALSE,
                    failure |-> "none", prev |-> call.op, n |-> call.n + 1,
                    at |-> IF sock = None /\ max_attempts > 0
                           THEN "try" ELSE "done",
                    result |-> IF sock # None THEN "True"
                               ELSE IF max_attempts > 0 THEN "None"
                               ELSE "False"]
    /\ UNCHANGED <<sock, client_auth_token, client_environ, closes, send,
                   opened>>
    /\ UNCHANGED <<running, auth_token, connvars, lifevars, framevars,
                   toolvars, sessionvars>>

\* The ways socket.connect fails: the three except clauses of connect().
ConnectFailures == {"TimeoutError", "ConnectionRefusedError", "OSError"}

\* A loop that sleeps after every failed attempt.
sleeps_after_always(attempt, max_attempts) == attempt < max_attempts

\* `if attempt < max_attempts - 1`, for the 0-based attempt just made.
sleeps_after(attempt, max_attempts) == attempt < max_attempts - 1

\* One turn of the loop of connect(): the attempt succeeds (a listener is
\* listening), the token is fetched and True returned; or it fails in one
\* of the three ways, sock is reset, and the loop sleeps or ends.
connect_attempt(outcome) ==
    /\ call.at = "try"
    /\ outcome = "ok" => socket = "listening"
    /\ IF outcome = "ok"
       THEN /\ sock' = "connected"
            /\ opened' = opened + 1
            /\ client_auth_token' = getenv
            /\ call' = [call EXCEPT !.attempt = @ + 1, !.at = "done",
                                    !.result = "True"]
       ELSE /\ sock' = None
            /\ opened' = opened
            /\ client_auth_token' = client_auth_token
            /\ call' = [call EXCEPT
                          !.attempt = @ + 1,
                          !.failure = outcome,
                          !.at = IF sleeps_after(call.attempt,
                                                 call.max_attempts)
                                 THEN "sleep"
                                 ELSE IF call.attempt + 1 < call.max_attempts
                                 THEN "try" ELSE "done",
                          !.result = IF call.attempt + 1 < call.max_attempts
                                     THEN "None" ELSE "False"]
    /\ UNCHANGED <<client_environ, closes, send>>
    /\ UNCHANGED <<running, auth_token, connvars, lifevars, framevars,
                   toolvars, sessionvars>>

\* time.sleep(self.retry_delay) returns.
connect_sleep ==
    /\ call.at = "sleep"
    /\ call' = [call EXCEPT
                  !.sleeps = @ + 1,
                  !.at = IF call.attempt < call.max_attempts
                         THEN "try" ELSE "done",
                  !.result = IF call.attempt < call.max_attempts
                             THEN "None" ELSE "False"]
    /\ UNCHANGED <<sock, client_auth_token, client_environ, closes, send,
                   opened>>
    /\ UNCHANGED <<running, auth_token, connvars, lifevars, framevars,
                   toolvars, sessionvars>>

\* A disconnect() without the try around close().
disconnect_raises_uncaught(close_ok) == ~close_ok

\* Whether disconnect() raises when sock.close() does: the exception is
\* caught and logged.
disconnect_raises(close_ok) == FALSE

\* A disconnect() that drops the cached token with the socket.
token_after_disconnect_cleared(tok) == None

\* The cached token after disconnect(): the method does not assign it.
token_after_disconnect(tok) == tok

\* disconnect(): close the socket if there is one (close may raise) and
\* reset sock.
disconnect(close_ok) ==
    /\ call.at = "done"
    /\ call.n < MaxClientCalls
    /\ sock' = None
    /\ closes' = IF sock # None THEN closes + 1 ELSE closes
    /\ client_auth_token' = token_after_disconnect(client_auth_token)
    /\ call' = [op |-> "disconnect", at |-> "done", retries |-> <<>>,
                max_attempts |-> 0, attempt |-> 0, sleeps |-> 0,
                result |-> "None",
                raised |-> (sock # None /\ disconnect_raises(close_ok)),
                failure |-> "none", prev |-> call.op, n |-> call.n + 1]
    /\ UNCHANGED <<client_environ, send, opened>>
    /\ UNCHANGED <<running, auth_token, connvars, lifevars, framevars,
                   toolvars, sessionvars>>

InitClient ==
    /\ running = FALSE
    /\ auth_token = NoField
    /\ NoFrames
    /\ socket = None
    /\ server_thread = None
    /\ environ = NoField
    /\ pc = "idle"
    /\ trace = <<>>
    /\ blenderforge_server = 0
    /\ blenderforge_server_running = FALSE
    /\ generated = 0
    /\ retired = {}
    /\ loops = NoLoops
    /\ sock = None
    /\ client_auth_token = None
    /\ client_environ \in {NoField, TokenOf(1)}
    /\ call = NoCall
    /\ closes = 0
    /\ send = NoSend
    /\ opened = 0
    /\ NoTools
    /\ NoSession
    /\ flags = [f \in Features |-> FALSE]
    /\ conn = [c \in Conns |-> "idle"]
    /\ stream = [c \in Conns |-> <<>>]
    /\ buffer = [c \in Conns |-> <<>>]
    /\ command = [c \in Conns |-> Unbound]
    /\ timers = <<>>
    /\ exec = {}
    /\ sent = [c \in Conns |-> 0]
    /\ answered = [c \in Conns |-> 0]
    /\ pipelined = [c \in Conns |-> FALSE]

NextClient ==
    \/ \E bind_ok \in BOOLEAN : StartServer(bind_ok)
    \/ StopServer
    \/ \E retries \in RetryArgs : connect(retries)
    \/ \E outcome \in ConnectFailures \cup {"ok"} : connect_attempt(outcome)
    \/ connect_sleep
    \/ \E close_ok \in BOOLEAN : disconnect(close_ok)

SpecClient == InitClient /\ [][NextClient]_vars

(***************************************************************************)
(* BlenderConnection.send_command.  The peer is abstract: what sendall and *)
(* recv do, and the Response that arrives, are inputs.  A sendall that     *)
(* fails is recorded as having written nothing (the bytes it may have     *)
(* pushed before failing are not a Command).                              *)
(***************************************************************************)
MaxSends == 2

SendTypes == {"get_scene_info", "add_modifier"}

\* An exception: its class and str(e).
Exc(class, message) == [class |-> class, message |-> message]
NoException == Exc("none", "")

\* str(e) of the socket errors.
OSMessage(class) ==
    CASE class = "BrokenPipeError" -> "[Errno 32] Broken pipe"
      [] class = "ConnectionResetError" ->
             "[Errno 104] Connection reset by peer"
      [] class = "TimeoutError" -> "timed out"
      [] OTHER -> "error"

\* What sock.sendall does.
WriteOutcomes ==
    {"ok", "BrokenPipeError", "ConnectionResetError", "TimeoutError"}

\* What the recv loop of receive_full_response meets: bytes that end up
\* parsing, a timeout or a zero-byte read before any byte or after bytes
\* that do not parse, or a connection error.
ReadOutcomes ==
    {"document", "timeout_empty", "timeout_partial", "closed_empty",
     "closed_partial", "ConnectionResetError", "BrokenPipeError"}

\* The Responses a listener writes, as the mappings json.loads returns.
SendResult == "{\"name\": \"Bevel\"}"
SendResponses ==
    {[status |-> "success", result |-> SendResult, message |-> NoField],
     [status |-> "success", result |-> NoField, message |-> NoField],
     [status |-> "error", result |-> NoField,
      message |-> "Object not found"],
     [status |-> "error", result |-> NoField, message |-> NoField]}
NoSendResponse ==
    [status |-> NoField, result |-> NoField, message |-> NoField]

\* What receive_full_response raises for each course of the recv loop.
receive_full_response_raises(read) ==
    CASE read = "document" -> NoException
      [] read = "timeout_empty" ->
             Exc("Exception", "Timeout: No data received")
      [] read = "closed_empty" ->
             Exc("Exception", "Connection closed before receiving any data")
      [] read \in {"timeout_partial", "closed_partial"} ->
             Exc("Exception", "Incomplete JSON response received")
      [] OTHER -> Exc(read, OSMessage(read))

\* The raise in the try body for a parsed Response.
response_raises(response) ==
    IF Get(response, response.status) = "error"
    THEN Exc("Exception",
             GetDefault(response.message, "Unknown error from Blender"))
    ELSE NoException

\* The classes the second except clause of send_command catches.
ConnectionErrors ==
    {"ConnectionError", "BrokenPipeError", "ConnectionResetError"}

\* An except chain that leaves the socket in place.
except_resets_sock_never(e) == FALSE

\* Whether the except clause that catches e assigns self.sock = None:
\* every clause but the JSONDecodeError one.
except_resets_sock(e) == e.class # "JSONDecodeError"

\* An except chain whose connection clause drops the cause.
except_message_bare(e) ==
    CASE e.class = "TimeoutError" ->
             "Timeout waiting for Blender response - try simplifying your request"
      [] e.class \in ConnectionErrors -> "Connection to Blender lost"
      [] e.class = "JSONDecodeError" ->
             "Invalid response from Blender: " \o e.message
      [] OTHER -> "Communication error with Blender: " \o e.message

\* The message of the Exception each except clause raises.
except_message(e) ==
    CASE e.class = "TimeoutError" ->
             "Timeout waiting for Blender response - try simplifying your request"
      [] e.class \in ConnectionErrors ->
             "Connection to Blender lost: " \o e.message
      [] e.class = "JSONDecodeError" ->
             "Invalid response from Blender: " \o e.message
      [] OTHER -> "Communication error with Blender: " \o e.message

\* A send_command that goes on whatever connect() returned.
not_connected_ignored(had_sock, connected) == FALSE

\* `not self.sock and not self.connect()`.
not_connected(had_sock, connected) == ~had_sock /\ connected = "False"

\* A Command that takes the token from the environment when it is built.
SendCommand_getenv(type) ==
    [type |-> type, params |-> EmptyMap,
     auth_token |-> IF client_environ \notin {NoField, ""}
                    THEN client_environ ELSE NoField]

\* {"type": ..., "params": params or {}} and the token if it is truthy.
SendCommand(type) ==
    [type |-> type, params |-> EmptyMap,
     auth_token |-> IF Truthy(client_auth_token) THEN client_auth_token
                    ELSE NoField]

\* The socket the last call wrote its Command on, 0 if it wrote none.
LastWrittenOn ==
    IF send.written = <<>> THEN 0 ELSE send.written[Len(send.written)].on

\* send_command(type) is called: with no socket, connect() is entered
\* with its default retries.
send_command(type) ==
    /\ call.at = "done"
    /\ send.at = "done"
    /\ send.n < MaxSends
    /\ send' = [at |-> "connecting", type |-> type, n |-> send.n + 1,
                written |-> <<>>, raised |-> "none", message |-> "",
                result |-> None, response |-> NoSendResponse,
                had_sock |-> sock # None, opened_before |-> opened,
                failed |-> "none", cause |-> NoException,
                prev_failed |-> send.failed, prev_on |-> LastWrittenOn]
    /\ call' = [op |-> "send_command", retries |-> <<>>,
                max_attempts |-> IF sock # None THEN 0 ELSE max_retries,
                attempt |-> 0, sleeps |-> 0, raised |-> FALSE,
                failure |-> "none", prev |-> call.op, n |-> call.n,
                at |-> IF sock = None THEN "try" ELSE "done",
                result |-> IF sock # None THEN "True" ELSE "None"]
    /\ UNCHANGED <<sock, client_auth_token, client_environ, closes, opened>>
    /\ UNCHANGED <<running, auth_token, connvars, lifevars, framevars,
                   toolvars, sessionvars>>

\* The call ends by raising e to the caller through the except chain.
SendRaises(e, failed) ==
    /\ sock' = IF except_resets_sock(e) THEN None ELSE sock
    /\ send' = [send EXCEPT !.at = "done", !.raised = "Exception",
                            !.message = except_message(e),
                            !.failed = failed, !.cause = e]

\* connect() has returned (or was not needed): ConnectionError if the
\* manager is not connected, otherwise the Command is built and written
\* with sendall on self.sock.
send_write(outcome) ==
    /\ send.at = "connecting"
    /\ call.at = "done"
    /\ IF not_connected(send.had_sock, call.result)
       THEN /\ send' = [send EXCEPT !.at = "done",
                                    !.raised = "ConnectionError",
                                    !.message = "Not connected to Blender",
                                    !.failed = "connect"]
            /\ sock' = sock
       ELSE IF sock = None
       THEN SendRaises(Exc("AttributeError",
                "'NoneType' object has no attribute 'sendall'"), "write")
       ELSE IF outcome = "ok"
       THEN /\ send' = [send EXCEPT
                          !.at = "reading",
                          !.written = Append(@,
                              [cmd |-> SendCommand(send.type),
                               on |-> opened])]
            /\ sock' = sock
       ELSE SendRaises(Exc(outcome, OSMessage(outcome)), "write")
    /\ UNCHANGED <<client_auth_token, client_environ, call, closes, opened>>
    /\ UNCHANGED <<running, auth_token, connvars, lifevars, framevars,
                   toolvars, sessionvars>>

\* receive_full_response and what follows it in the try body: the parsed
\* Response's result is returned, or an exception goes through the except
\* chain.
send_read(read, response) ==
    /\ send.at = "reading"
    /\ read # "document" => response = NoSendResponse
    /\ read = "document" => response \in SendResponses
    /\ LET e == IF read = "document" THEN response_raises(response)
                ELSE receive_full_response_raises(read)
       IN  IF e = NoException
           THEN /\ send' = [send EXCEPT
                              !.at = "done",
                              !.response = response,
                              !.result = GetDefault(response.result,
                                                    EmptyMap)]
                /\ sock' = sock
           ELSE /\ sock' = IF except_resets_sock(e) THEN None ELSE sock
                /\ send' = [send EXCEPT
                              !.at = "done", !.raised = "Exception",
                              !.response = response,
                              !.message = except_message(e),
                              !.failed = read, !.cause = e]
    /\ UNCHANGED <<client_auth_token, client_environ, call, closes, opened>>
    /\ UNCHANGED <<running, auth_token, connvars, lifevars, framevars,
                   toolvars, sessionvars>>

NextSend ==
    \/ \E bind_ok \in BOOLEAN : StartServer(bind_ok)
    \/ StopServer
    \/ \E type \in SendTypes : send_command(type)
    \/ \E outcome \in ConnectFailures \cup {"ok"} : connect_attempt(outcome)
    \/ connect_sleep
    \/ \E outcome \in WriteOutcomes : send_write(outcome)
    \/ \E read \in ReadOutcomes, response \in SendResponses \cup
                                               {NoSendResponse} :
           send_read(read, response)

SpecSend == InitClient /\ [][NextSend]_vars

(***************************************************************************)
(* The tool functions of server.py.  A tool call is one step: what         *)
(* get_blender_connection and send_command do for it are inputs (the       *)
(* tests mock them the same way).  `sent` lists the Commands the tool      *)
(* itself passed to send_command; the get_polyhaven_status ping of         *)
(* get_blender_connection is not among them.                               *)
(***************************************************************************)
MaxToolCalls == 2

\* Values of BLENDERFORGE_ALLOW_CODE_EXECUTION.
ToggleValues == {NoField, "true", "True", "false"}

\* Code passed to execute_blender_code: clean, matching a dangerous
\* pattern, importing a module outside the allow-list.
Codes == {"bpy.ops.mesh.primitive_cube_add()", "import subprocess",
          "import os"}

\* A validation that asks the environment at each call.
validate_toggle_getenv == AllowCodeExecution(code_environ)

\* The toggle validate_code_security consults: the module-level constant.
validate_toggle == CODE_EXECUTION_ENABLED

\* validate_code_security(code): (is_safe, error_message).
validate_code_security(code) ==
    IF ~validate_toggle
    THEN [is_safe |-> FALSE,
          error_msg |-> "Code execution is disabled. Set BLENDERFORGE_ALLOW_CODE_EXECUTION=true to enable."]
    ELSE IF code = "import subprocess"
    THEN [is_safe |-> FALSE,
          error_msg |-> "Code contains potentially dangerous pattern: \\bsubprocess\\b"]
    ELSE IF code = "import os"
    THEN [is_safe |-> FALSE,
          error_msg |-> "Import of 'os' is not allowed. Allowed: bmesh, bpy, collections, functools, itertools, json, math, mathutils, random, re, typing"]
    ELSE [is_safe |-> TRUE, error_msg |-> ""]

\* The mappings send_command returns to a tool, as JSON text.
ExecResult == "{\"executed\": true, \"result\": \"4\"}"
ToolResults == {"{}", SendResult, ExecResult}

\* json.dumps(result, indent=2).
dumps_indent(v) ==
    CASE v = "{}" -> "{}"
      [] v = SendResult -> "{\n  \"name\": \"Bevel\"\n}"
      [] v = ExecResult ->
             "{\n  \"executed\": true,\n  \"result\": \"4\"\n}"
      [] OTHER -> "null"

\* result.get('result', '').
get_result(v) == IF v = ExecResult THEN "4" ELSE ""

\* What get_blender_connection does for the call.
ConnOutcomes == {"ok", "raises"}
ConnMessage ==
    "Could not connect to Blender. Make sure the Blender addon is running."

\* What send_command does for the call: it returns one of the mappings or
\* raises.
SendReturns(v) == [class |-> "none", message |-> "", value |-> v]
SendRaised ==
    {[class |-> "ConnectionError", message |-> "Not connected to Blender",
      value |-> None],
     [class |-> "Exception",
      message |-> "Communication error with Blender: Object not found",
      value |-> None]}
SendOutcomes == {SendReturns(v) : v \in ToolResults} \cup SendRaised

\* json.loads of a string that is not JSON.
JSONDecodeMessage == "Expecting value: line 1 column 1 (char 0)"

\* The advanced-feature tools followed here: a tool with an optional JSON
\* argument, one with a required JSON argument, one with none.
AdvancedTools == {"add_modifier", "extrude_faces", "render_image"}

\* The JSON-string argument: not given, JSON, not JSON.
ToolArgs(name) ==
    CASE name = "add_modifier" -> {"none", "valid", "invalid"}
      [] name = "extrude_faces" -> {"valid", "invalid"}
      [] OTHER -> {"none"}

\* The label of each tool's error string.
ErrorLabel(name) ==
    CASE name = "add_modifier" -> "Error adding modifier"
      [] name = "extrude_faces" -> "Error extruding faces"
      [] name = "render_image" -> "Error rendering image"
      [] OTHER -> "Error"

\* json.dumps({"error": f"<label>: {str(e)}"}), for messages without
\* characters that JSON escapes.
dumps_error(name, message) ==
    "{\"error\": \"" \o ErrorLabel(name) \o ": " \o message \o "\"}"

\* A wrapper whose except clause names only the connection errors.
Caught_connection_only(class) == class \in ConnectionErrors

\* `except Exception` catches every class a tool body raises here.
Caught(class) ==
    class \in {"Exception", "ConnectionError", "JSONDecodeError"}

\* The exception the body of a wrapper raises, NoException if it gets to
\* its return: get_blender_connection first, then json.loads of the
\* argument, then send_command.
BodyRaises(arg, gc, sc) ==
    IF gc = "raises" THEN Exc("Exception", ConnMessage)
    ELSE IF arg = "invalid" THEN Exc("JSONDecodeError", JSONDecodeMessage)
    ELSE IF sc \in SendRaised THEN Exc(sc.class, sc.message)
    ELSE NoException

\* Whether the body got as far as calling send_command.
BodySends(arg, gc) == gc = "ok" /\ arg # "invalid"

\* The environment variable is set (or removed) while the process runs.
setenv(v) ==
    /\ v # code_environ
    /\ tool.n < MaxToolCalls
    /\ code_environ' = v
    /\ UNCHANGED <<CODE_EXECUTION_ENABLED, tool>>
    /\ UNCHANGED sessionvars
    /\ UNCHANGED <<sock, client_auth_token, client_environ, call, closes,
                   send, opened>>
    /\ UNCHANGED <<running, auth_token, connvars, lifevars, framevars>>

\* execute_blender_code(ctx, code).
execute_blender_code(code, gc, sc) ==
    /\ tool.n < MaxToolCalls
    /\ LET v == validate_code_security(code)
           e == IF gc = "raises" THEN Exc("Exception", ConnMessage)
                ELSE IF sc \in SendRaised
                THEN Exc(sc.class, sc.message) ELSE NoException
       IN  tool' =
             [name |-> "execute_blender_code", n |-> tool.n + 1,
              arg |-> code, env |-> code_environ,
              imported |-> tool.imported,
              failure |-> IF ~v.is_safe THEN "validation"
                          ELSE IF gc = "raises" THEN "connection"
                          ELSE IF sc \in SendRaised THEN "send"
                          ELSE "none",
              cause |-> IF ~v.is_safe THEN v.error_msg ELSE e.message,
              sent |-> IF v.is_safe /\ gc = "ok"
                       THEN <<"execute_code">> ELSE <<>>,
              value |-> IF v.is_safe /\ e = NoException THEN sc.value
                        ELSE None,
              raised |-> (v.is_safe /\ e # NoException /\ ~Caught(e.class)),
              returned |->
                  IF ~v.is_safe
                  THEN "Security validation failed: " \o v.error_msg
                  ELSE IF e # NoException
                  THEN IF Caught(e.class)
                       THEN "Error executing code: " \o e.message
                       ELSE ""
                  ELSE "Code executed successfully: " \o get_result(sc.value)]
    /\ UNCHANGED <<code_environ, CODE_EXECUTION_ENABLED>>
    /\ UNCHANGED sessionvars
    /\ UNCHANGED <<sock, client_auth_token, client_environ, call, closes,
                   send, opened>>
    /\ UNCHANGED <<running, auth_token, connvars, lifevars, framevars>>

\* One of the advanced-feature tools is called.
tool_call(name, arg, gc, sc) ==
    /\ tool.n < MaxToolCalls
    /\ arg \in ToolArgs(name)
    /\ LET e == BodyRaises(arg, gc, sc)
       IN  tool' =
             [name |-> name, n |-> tool.n + 1, arg |-> arg,
              env |-> code_environ, imported |-> tool.imported,
              failure |-> IF gc = "raises" THEN "connection"
                          ELSE IF arg = "invalid" THEN "parse"
                          ELSE IF sc \in SendRaised THEN "send"
                          ELSE "none",
              cause |-> e.message,
              sent |-> IF BodySends(arg, gc) THEN <<name>> ELSE <<>>,
              value |-> IF e = NoException THEN sc.value ELSE None,
              raised |-> (e # NoException /\ ~Caught(e.class)),
              returned |->
                  IF e = NoException THEN dumps_indent(sc.value)
                  ELSE IF Caught(e.class) THEN dumps_error(name, e.message)
                  ELSE ""]
    /\ UNCHANGED <<code_environ, CODE_EXECUTION_ENABLED>>
    /\ UNCHANGED sessionvars
    /\ UNCHANGED <<sock, client_auth_token, client_environ, call, closes,
                   send, opened>>
    /\ UNCHANGED <<running, auth_token, connvars, lifevars, framevars>>

\* server.py has been imported, in an environment with any value of the
\* toggle; no listener, no manager.
InitTools ==
    /\ running = FALSE
    /\ auth_token = NoField
    /\ NoFrames
    /\ socket = None
    /\ server_thread = None
    /\ environ = NoField
    /\ pc = "idle"
    /\ trace = <<>>
    /\ blenderforge_server = 0
    /\ blenderforge_server_running = FALSE
    /\ generated = 0
    /\ retired = {}
    /\ loops = NoLoops
    /\ sock = None
    /\ client_auth_token = None
    /\ client_environ = NoField
    /\ call = NoCall
    /\ closes = 0
    /\ send = NoSend
    /\ opened = 0
    /\ code_environ \in ToggleValues
    /\ CODE_EXECUTION_ENABLED = AllowCodeExecution(code_environ)
    /\ tool = NoTool(code_environ)
    /\ NoSession
    /\ flags = [f \in Features |-> FALSE]
    /\ conn = [c \in Conns |-> "idle"]
    /\ stream = [c \in Conns |-> <<>>]
    /\ buffer = [c \in Conns |-> <<>>]
    /\ command = [c \in Conns |-> Unbound]
    /\ timers = <<>>
    /\ exec = {}
    /\ sent = [c \in Conns |-> 0]
    /\ answered = [c \in Conns |-> 0]
    /\ pipelined = [c \in Conns |-> FALSE]

NextTools ==
    \/ \E v \in ToggleValues : setenv(v)
    \/ \E code \in Codes, co \in ConnOutcomes, sc \in SendOutcomes :
           execute_blender_code(code, co, sc)
    \/ \E name \in AdvancedTools, arg \in {"none", "valid", "invalid"},
          co \in ConnOutcomes, sc \in SendOutcomes :
           tool_call(name, arg, co, sc)

SpecTools == InitTools /\ [][NextTools]_vars

(***************************************************************************)
(* _server_loop, step by step, for the listeners the operators construct.  *)
(* The Stop operator deletes the listener it has stopped, so a listener    *)
(* whose flag was cleared under a live accept thread is never started      *)
(* again.  stop() is one step here, so an accept call that is in progress  *)
(* when the flag is cleared may still return a connection that had        *)
(* arrived before the socket was closed.                                   *)
(***************************************************************************)
\* self.running as the accept thread of listener i reads it; self.socket
\* is there exactly when it is true.
RunningOf(i) == blenderforge_server = i /\ running

\* Where the accept thread is after each way accept() can end.
AcceptOutcomes == {"client", "TimeoutError", "OSError"}

\* A loop whose `continue` goes back to accept() without the test.
after_timeout_untested == "accept"

\* `except TimeoutError: continue`: back to the test of the while.
after_timeout == "check"

\* The thread starts: self.socket.settimeout(1.0), which ends the thread
\* with AttributeError when stop() has already removed the socket.
loop_begin(i) ==
    /\ loops[i].pc = "begin"
    /\ loops' = [loops EXCEPT ![i].pc = IF RunningOf(i) THEN "check"
                                        ELSE "exited"]
    /\ UNCHANGED <<running, auth_token, connvars, framevars, clientvars>>
    /\ UNCHANGED <<socket, server_thread, environ, pc, trace,
                   blenderforge_server, blenderforge_server_running,
                   generated, retired>>

\* `while self.running`.
loop_check(i) ==
    /\ loops[i].pc = "check"
    /\ loops' = [loops EXCEPT ![i].pc = IF RunningOf(i) THEN "accept"
                                        ELSE "exited"]
    /\ UNCHANGED <<running, auth_token, connvars, framevars, clientvars>>
    /\ UNCHANGED <<socket, server_thread, environ, pc, trace,
                   blenderforge_server, blenderforge_server_running,
                   generated, retired>>

\* self.socket.accept() returns a connection (a reader thread is started
\* for it), times out after its second, or fails (the socket was closed or
\* removed; the thread prints and sleeps half a second).
loop_accept(i, outcome) ==
    /\ loops[i].pc = "accept"
    /\ loops[i].late < 2
    /\ loops' = [loops EXCEPT
                   ![i].pc = IF outcome = "TimeoutError" THEN after_timeout
                             ELSE "check",
                   ![i].late = IF RunningOf(i) THEN @ ELSE @ + 1]
    /\ IF outcome = "client"
       THEN \E c \in Conns :
                /\ conn[c] = "idle"
                /\ \A d \in Conns : d < c => conn[d] # "idle"
                /\ conn' = [conn EXCEPT ![c] = "open"]
       ELSE conn' = conn
    /\ UNCHANGED <<stream, buffer, command, timers, exec, sent, answered,
                   pipelined, flags>>
    /\ UNCHANGED <<running, auth_token, framevars, clientvars>>
    /\ UNCHANGED <<socket, server_thread, environ, pc, trace,
                   blenderforge_server, blenderforge_server_running,
                   generated, retired>>

NextAccept ==
    \/ \E bind_ok \in BOOLEAN : StartServer(bind_ok)
    \/ StopServer
    \/ \E i \in 1..MaxInstances : loop_begin(i)
    \/ \E i \in 1..MaxInstances : loop_check(i)
    \/ \E i \in 1..MaxInstances, outcome \in AcceptOutcomes :
           loop_accept(i, outcome)

\* Every accept thread is scheduled again and again, and an accept() call
\* returns within its timeout of one second.
SpecAccept ==
    /\ InitClient
    /\ [][NextAccept]_vars
    /\ \A i \in 1..MaxInstances :
           /\ WF_vars(loop_begin(i))
           /\ WF_vars(loop_check(i))
           /\ WF_vars(\E outcome \in AcceptOutcomes : loop_accept(i, outcome))

(***************************************************************************)
(* Properties.                                                             *)
(***************************************************************************)

\* C1: every executed Command whose auth_token field is present (a string)
\* and differs from the listener's token gets the Response {status: error, message:
\* "Invalid authentication token"} and no handler, the get_polyhaven_status
\* shortcut included, is invoked for it.
C1_PresentWrongTokenRejected ==
    \A x \in exec :
        (x.cmd.kind = "map" /\ x.cmd.auth_token \notin {NoField, JsonNull}
           /\ x.cmd.auth_token # auth_token)
        => /\ x.res.resp = [status |-> "error",
                            message |-> "Invalid authentication token"]
           /\ x.res.invoked = NoHandler

\* C2: a Command without an auth_token field, or whose auth_token equals the
\* listener's token, is never rejected by the auth gate: it goes on to
\* dispatch (the table lookup for its type, which for get_polyhaven_status is
\* the shortcut placed in front of the table).
C2_AbsentOrRightTokenPassesGate ==
    \A x \in exec :
        (x.cmd.kind = "map" /\ x.cmd.auth_token \in {NoField, auth_token})
        => /\ x.res.resp # [status |-> "error",
                            message |-> "Invalid authentication token"]
           /\ x.res.stage \in {"lookup", "shortcut"}
           /\ (x.cmd.type \in handlers(flags) => x.res.invoked = x.cmd.type)

C2_Witness ==
    \E x \in exec :
        /\ x.cmd.auth_token = auth_token
        /\ x.cmd.type = "execute_code"
        /\ x.res.invoked = "execute_code"

\* C3: a Command that passes the auth gate and whose type is not in the
\* dispatch table built for it gets the Response {status: error, message:
\* "Unknown command type: <type>"}, no handler is invoked, and completing it
\* leaves the connection it arrived on as it was (open stays open).
C3_UnknownTypeAnswered ==
    [][\A x \in exec :
         (/\ x.cmd.kind = "map"
          /\ x.cmd.auth_token \in {NoField, auth_token}
          /\ x.cmd.type \notin handlers(flags))
         => /\ x.res.resp =
                 [status |-> "error",
                  message |-> "Unknown command type: " \o
                      (IF x.cmd.type = NoField THEN "None" ELSE x.cmd.type)]
            /\ x.res.invoked = NoHandler
            /\ (x \notin exec' => conn'[x.conn] = conn[x.conn])]_vars

C3_Witness ==
    \E x \in exec :
        /\ x.cmd.type = "nonexistent_op"
        /\ x.res.resp.status = "error"
        /\ conn[x.conn] = "open"
        /\ answered[x.conn] = 1

\* C4: the dispatch table of a Command is built from the feature flags as
\* they are when the Command is dispatched on the main thread: a Command of
\* a feature-gated type reaches its handler exactly if the feature's flag is
\* set at that moment, also when the flag was toggled after the Command was
\* received.
C4_TableFollowsLiveFlags ==
    \A x \in exec : \A f \in Features :
        (/\ x.cmd.kind = "map"
         /\ x.cmd.auth_token \in {NoField, auth_token}
         /\ x.cmd.type \in GroupOf(f))
        => IF flags[f]
           THEN x.res.invoked = x.cmd.type
           ELSE /\ x.res.invoked = NoHandler
                /\ x.res.resp.status = "error"

C4_Witness ==
    \E x \in exec :
        /\ x.toggled
        /\ x.cmd.type = "search_polyhaven_assets"
        /\ flags["polyhaven"]
        /\ x.res.invoked = "search_polyhaven_assets"

\* C5: dispatch completeness.  A Command (past the auth gate) of a type owned
\* by a feature group reaches its handler when the group's flag is set and
\* gets "Unknown command type" when it is not; a type of an always-on group
\* reaches its handler under every combination of flags.
C5_DispatchCompleteness ==
    \A x \in exec :
        (x.cmd.kind = "map" /\ x.cmd.auth_token \in {NoField, auth_token})
        => /\ x.cmd.type \in AlwaysOn => x.res.invoked = x.cmd.type
           /\ \A f \in Features :
                x.cmd.type \in GroupOf(f) =>
                    IF flags[f]
                    THEN x.res.invoked = x.cmd.type
                    ELSE x.cmd.type \notin AlwaysOn =>
                           /\ x.res.invoked = NoHandler
                           /\ x.res.resp =
                                [status |-> "error",
                                 message |-> "Unknown command type: " \o
                                             x.cmd.type]

C5_Witness ==
    \E x \in exec :
        /\ x.cmd.type = "import_generated_asset_hunyuan"
        /\ flags["hunyuan3d"] /\ ~flags["hyper3d"]
        /\ x.res.invoked = "import_generated_asset_hunyuan"

\* C6: execute_command never raises, whatever the parsed document; when the
\* handler raises (or its arguments do not bind, as with a params that is
\* not a mapping) the Response is {status: error, message: str(exception)}
\* and has no result field; a document that is not a mapping is answered
\* with status error as well.
C6_ErrorsBecomeResponses ==
    \A x \in exec :
        /\ ~x.res.raised
        /\ x.res.outcome = "raise" =>
             x.res.resp = [status |-> "error", message |-> RaisedMessage]
        /\ x.res.outcome = "bind" =>
             x.res.resp = [status |-> "error", message |-> BindMessage]
        /\ x.cmd.kind # "map" =>
             x.res.resp = [status |-> "error", message |-> AttributeMessage]

C6_Witness ==
    \E x \in exec :
        /\ x.res.outcome = "raise"
        /\ x.res.invoked = "execute_code"
        /\ x.res.resp.status = "error"

\* C7: a handler that returns a mapping with an error key is answered with
\* {status: success, result: that mapping}.
C7_SoftFailureStaysSuccess ==
    \A x \in exec :
        x.res.outcome = "soft" =>
            x.res.resp = [status |-> "success", result |-> [error |-> "boom"]]

C7_Witness ==
    \E x \in exec :
        /\ x.res.outcome = "soft"
        /\ x.res.invoked = "get_scene_info"

\* C8: execute_command and the handlers run on the host's main thread only,
\* never on a reader thread.
C8_HandlersOnMainThread ==
    \A x \in exec : x.thread = MainThread

C8_Witness ==
    \E x \in exec :
        /\ x.res.invoked # NoHandler
        /\ x.thread = MainThread
        /\ conn[x.conn] = "open"

\* C9: at most one handler invocation is in progress at any time, whatever
\* the clients send.
C9_OneHandlerAtATime ==
    Cardinality({x \in exec : x.res.invoked # NoHandler}) <= 1

C9_Witness ==
    \E x \in exec :
        /\ x.res.invoked # NoHandler
        /\ \E i \in 1..Len(timers) : timers[i].conn # x.conn

\* Commands of connection c that are parsed and not yet answered.
Pending(c) ==
    Cardinality({i \in 1..Len(timers) : timers[i].conn = c})
      + Cardinality({x \in exec : x.conn = c})

\* C10 as stated: two Commands of one connection are never pending at the
\* same time.
C10_Original_OnePendingPerConnection ==
    \A c \in Conns : Pending(c) <= 1

\* C10, amended: on a connection whose client writes each Command only after
\* the Response to the previous one has been written, at most one Command is
\* pending, and while it is pending the reader holds and receives no bytes
\* of a later Command.
C10_OnePendingWhenClientWaits ==
    \A c \in Conns :
        ~pipelined[c] =>
            /\ Pending(c) <= 1
            /\ Pending(c) = 1 => (stream[c] = <<>> /\ buffer[c] = <<>>)

C10_Witness ==
    \E c \in Conns :
        /\ ~pipelined[c]
        /\ sent[c] = 2
        /\ answered[c] = 1
        /\ Pending(c) = 1

\* Commands the reader of connection c has parsed so far: what was sent,
\* less what is still in flight or stuck in the accumulator.
Parsed(c) == sent[c] - Len(stream[c]) - Len(buffer[c])

\* C11 as stated: every parsed Command whose deferred unit has run has
\* exactly one Response written on its connection.
C11_Original_ExactlyOneResponse ==
    \A c \in Conns : Parsed(c) = answered[c] + Pending(c)

\* C11, amended: the Responses written on a connection never outnumber the
\* Commands parsed on it whose deferred unit has run (no Response without a
\* Command, at most one per Command), and a deferred unit that finishes
\* while its connection is still open writes exactly one.
C11_AtMostOneResponsePerCommand ==
    [][/\ \A c \in Conns : answered'[c] + Pending(c)' <= Parsed(c)'
       /\ \A x \in exec \ exec' :
            /\ answered'[x.conn] <= answered[x.conn] + 1
            /\ conn[x.conn] = "open"
                 => answered'[x.conn] = answered[x.conn] + 1]_vars

C11_Witness ==
    \E c \in Conns :
        /\ conn[c] = "open"
        /\ Parsed(c) = 2
        /\ answered[c] = 2

\* C12: a deferred unit writes on the socket its Command arrived on and on
\* no other; when that write fails because the client is gone, nothing else
\* changes: the listener keeps its running flag, every connection keeps
\* its state, and the Commands scheduled or executing for other
\* connections stay scheduled or executing.
C12_WriteOnOwnSocketFailureSwallowed ==
    [][\A x \in exec \ exec' :
         /\ \A c \in Conns \ {x.conn} : answered'[c] = answered[c]
         /\ running' = running
         /\ conn' = conn
         /\ timers' = timers
         /\ exec' = exec \ {x}
         /\ <<stream, buffer, command>>' = <<stream, buffer, command>>]_vars

\* The write for connection 1 has failed (its client is gone), and after
\* that a Command of connection 2 has still been executed and answered.
C12_Witness ==
    /\ running
    /\ conn[1] = "closed"
    /\ Parsed(1) = 1 /\ Pending(1) = 0 /\ answered[1] = 0
    /\ conn[2] = "open"
    /\ answered[2] = 1

\* C13: a Command that fails (rejected by the auth gate, of unknown type,
\* its handler raising, or its result not serializable) is answered with an
\* error Response and is not fatal: when its deferred unit finishes, the
\* listener is still running, the connection is as it was (open), its
\* Response has been written, and the accumulator of a client that waits for
\* its Responses is empty, so that the next Command is parsed, executed and
\* answered like the first.
C13_FailuresAreNotFatal ==
    [][\A x \in exec :
         (\/ x.cmd.auth_token = "wrong"
          \/ x.cmd.type = "nonexistent_op"
          \/ x.res.outcome \in {"raise", "bind", "unserializable"})
         => /\ execute_wrapper_response(x.res).status = "error"
            /\ x \notin exec' =>
                 /\ running' = running
                 /\ conn'[x.conn] = conn[x.conn]
                 /\ conn[x.conn] = "open"
                      => answered'[x.conn] = answered[x.conn] + 1
                 /\ ~pipelined[x.conn] => buffer'[x.conn] = <<>>]_vars

\* A second Command, whose handler returned an unserializable value, is
\* executing on a connection whose first Command failed and was answered.
C13_Witness ==
    /\ running
    /\ conn[1] = "open"
    /\ ~pipelined[1]
    /\ sent[1] = 2
    /\ answered[1] = 1
    /\ \E x \in exec : x.conn = 1 /\ x.res.outcome = "unserializable"

\* C14: every stop() call returns (the join does not wait for ever), and
\* whenever the last call to have returned is a stop(), the running flag is
\* false and the published token is absent from the environment, whatever
\* calls came before it.
C14_StopReturnsAndClears ==
    /\ [](pc = "join" => <>(pc = "idle"))
    /\ []((pc = "idle" /\ trace # <<>> /\ trace[Len(trace)] = "stop")
            => (~running /\ environ = NoField /\ socket = None))

\* stop() has returned a second time in a row, after a start-stop-... prefix.
C14_Witness ==
    /\ pc = "idle"
    /\ trace = <<"start", "stop", "stop">>

\* C16: a single document (a Command for the listener, a Response for the
\* client), delivered in chunks of any sizes, is yielded by the receiver
\* exactly once and as the value that was encoded; nothing is yielded
\* before its last byte has arrived (no proper prefix parses), and when it
\* has been yielded the accumulator is empty.
C16_FramingRoundTrip ==
    Len(docs) = 1 =>
        /\ decoded \in {<<>>, <<docs[1]>>}
        /\ decoded # <<>> => (wire = <<>> /\ chunks = <<>>)
        /\ wire = <<>> => decoded = <<docs[1]>>

\* A Command that took three reads or more has been decoded by the listener.
C16_Witness ==
    /\ side = "listener"
    /\ Len(docs) = 1
    /\ reads = 2
    /\ wire = <<>>
    /\ decoded = docs
    /\ chunks = <<>>

\* C17 as stated: two Commands written back to back are both recovered,
\* whatever the reads.
C17_Original_SecondCommandRecovered ==
    (side = "listener" /\ Len(docs) = 2 /\ wire = <<>>) => decoded = docs

\* C17, amended: of two Commands written back to back, the second is
\* recovered as a separate Command, for every way their bytes are split,
\* as long as no read returns bytes of both; after a read that returned the
\* end of the first together with bytes of the second, neither is ever
\* yielded and the accumulator keeps growing.
C17_RecoveredUnlessCoalesced ==
    (side = "listener" /\ Len(docs) = 2) =>
        /\ (~straddled /\ wire = <<>>) => (decoded = docs /\ chunks = <<>>)
        /\ straddled => (decoded = <<>> /\ chunks # <<>>)

\* Both Commands recovered from reads that split each of them.
C17_Witness ==
    /\ side = "listener"
    /\ Len(docs) = 2
    /\ ~straddled
    /\ reads = 2
    /\ wire = <<>>
    /\ decoded = docs

\* C15: whenever the listener is running after an earlier listener was
\* stopped, the token its auth gate checks is the one published in the
\* environment and is none of the tokens that were in force before a stop.
C15_NewTokenAfterRestart ==
    running => (environ = auth_token /\ auth_token \notin retired)

\* The listener runs again after a stop.
C15_Witness ==
    /\ running
    /\ retired # {}
    /\ environ = auth_token

\* C18: a connect() on a manager without a socket makes at most
\* max_attempts attempts (3 when no argument is given), returns True at the
\* first attempt that succeeds, sleeps once between two consecutive
\* attempts and not after the last, and when every attempt has failed, in
\* whichever way, returns False without raising.
C18_BoundedRetry ==
    (call.op = "connect" /\ call.max_attempts > 0) =>
        /\ call.retries = <<>> => call.max_attempts = 3
        /\ call.retries # <<>> => call.max_attempts = call.retries[1]
        /\ call.attempt <= call.max_attempts
        /\ ~call.raised
        /\ call.at = "try" => call.sleeps = call.attempt
        /\ call.at = "sleep" =>
              (call.sleeps = call.attempt - 1
                 /\ call.attempt < call.max_attempts)
        /\ call.at = "done" =>
              /\ call.sleeps = call.attempt - 1
              /\ call.result \in {"True", "False"}
              /\ call.result = "True" <=> sock = "connected"
              /\ call.result = "False" =>
                    (call.attempt = call.max_attempts /\ sock = None)

\* The default three attempts have all failed, the last one refused, with
\* two sleeps between them.
C18_Witness ==
    /\ call.op = "connect"
    /\ call.retries = <<>>
    /\ call.at = "done"
    /\ call.result = "False"
    /\ call.attempt = 3
    /\ call.sleeps = 2
    /\ call.failure = "ConnectionRefusedError"

\* C19: disconnect() returns without raising and leaves the manager
\* without a socket; a socket that was there has been closed; on a manager
\* that has none it changes nothing.
C19_DisconnectIdempotent ==
    [][(call'.op = "disconnect" /\ call'.n = call.n + 1) =>
         /\ sock' = None
         /\ ~call'.raised
         /\ sock # None => closes' = closes + 1
         /\ sock = None =>
               /\ closes' = closes
               /\ client_auth_token' = client_auth_token
               /\ client_environ' = client_environ]_vars

\* A second disconnect() in a row has returned.
C19_Witness ==
    /\ call.op = "disconnect"
    /\ call.prev = "disconnect"
    /\ closes = 1
    /\ sock = None

\* C20 as stated: after disconnect() the manager holds no cached token.
C20_Original_DisconnectClearsToken ==
    call.op = "disconnect" => client_auth_token = None

\* C20, amended: disconnect() leaves the cached token as it is; the token
\* is replaced only by a connect attempt that succeeds, with the value the
\* manager's environment holds at that moment.
C20_TokenKeptUntilReconnect ==
    [][/\ (call'.op = "disconnect" /\ call'.n = call.n + 1)
           => client_auth_token' = client_auth_token
       /\ client_auth_token' # client_auth_token
           => (/\ call.at = "try"
               /\ sock' = "connected"
               /\ client_auth_token' = IF client_environ = NoField THEN None
                                        ELSE client_environ)]_vars

\* A manager that has disconnected still holds the token it had fetched.
C20_Witness ==
    /\ call.op = "disconnect"
    /\ sock = None
    /\ closes = 1
    /\ client_auth_token = TokenOf(1)
\* C21: a send_command on a manager without a socket enters connect()
\* before anything is written; when connect() has returned False the call
\* ends with ConnectionError("Not connected to Blender"), no Command
\* written and still no socket; when it has returned True the one Command
\* of the call is written on the socket that connect() opened in this
\* call.
C21_ConnectsBeforeSending ==
    (send.n > 0 /\ ~send.had_sock) =>
        /\ call.op = "send_command"
        /\ call.max_attempts = max_retries
        /\ send.at = "connecting" => send.written = <<>>
        /\ (send.at # "connecting" /\ call.result = "False") =>
               /\ send.at = "done"
               /\ send.raised = "ConnectionError"
               /\ send.message = "Not connected to Blender"
               /\ send.written = <<>>
               /\ sock = None
               /\ opened = send.opened_before
        /\ (send.at # "connecting" /\ call.result # "False") =>
               /\ call.result = "True"
               /\ opened = send.opened_before + 1
               /\ send.raised # "ConnectionError"
               /\ (send.at = "reading" \/ send.failed # "write") =>
                      /\ Len(send.written) = 1
                      /\ send.written[1].on = send.opened_before + 1
                      /\ send.written[1].cmd.type = send.type

\* The second call of a manager that lost its first socket has written its
\* Command on the second socket.
C21_Witness ==
    /\ send.n = 2
    /\ ~send.had_sock
    /\ send.opened_before = 1
    /\ Len(send.written) = 1
    /\ send.written[1].on = 2

\* C22: a send_command that has read a Response with status success has
\* returned the Response's result ({} when it has none); one that has read
\* a Response with status error has raised an error whose message is the
\* Response's message ("Unknown error from Blender" when it has none), and
\* the manager still has its socket.
C22_ResultReturnedOrMessageRaised ==
    send.at = "done" =>
        /\ send.response.status = "success" =>
               /\ send.raised = "none"
               /\ send.result = IF send.response.result = NoField
                                THEN "{}" ELSE send.response.result
        /\ send.response.status = "error" =>
               /\ send.raised = "Exception"
               /\ send.message = IF send.response.message = NoField
                                 THEN "Unknown error from Blender"
                                 ELSE send.response.message

\* C23: a send_command whose wait for the Response timed out (before any
\* byte, or after bytes that do not parse) has raised, has left the manager
\* without a socket and has written its Command once; the send_command
\* after it starts without a socket, goes through connect(), and writes
\* only on the socket that connect() opens, a later one than the socket
\* of the timed-out call.
C23_TimeoutDropsConnection ==
    /\ (send.at = "done"
        /\ send.failed \in {"timeout_empty", "timeout_partial"}) =>
           /\ send.raised = "Exception"
           /\ sock = None
           /\ Len(send.written) = 1
    /\ (send.n > 0
        /\ send.prev_failed \in {"timeout_empty", "timeout_partial"}) =>
           /\ ~send.had_sock
           /\ call.op = "send_command"
           /\ call.max_attempts = max_retries
           /\ \A i \in 1..Len(send.written) :
                  /\ call.result = "True"
                  /\ send.written[i].on = send.opened_before + 1
                  /\ send.written[i].on > send.prev_on

\* The call after a timed-out one has written its Command on a second
\* socket.
C23_Witness ==
    /\ send.n = 2
    /\ send.prev_failed = "timeout_empty"
    /\ send.prev_on = 1
    /\ Len(send.written) = 1
    /\ send.written[1].on = 2
    /\ send.at = "reading"

\* C24: a send_command whose sendall or recv failed with a broken pipe or
\* a connection reset has left the manager without a socket and has raised
\* an error whose message ends with the text of the underlying error.
C24_ConnectionLostCarriesCause ==
    (send.at = "done"
     /\ send.cause.class \in {"BrokenPipeError", "ConnectionResetError"}) =>
        /\ sock = None
        /\ send.raised = "Exception"
        /\ send.cause.class = "BrokenPipeError" =>
               send.message =
                   "Connection to Blender lost: [Errno 32] Broken pipe"
        /\ send.cause.class = "ConnectionResetError" =>
               send.message =
                   "Connection to Blender lost: [Errno 104] Connection reset by peer"

\* A call on a connected manager whose sendall met a broken pipe, and one
\* whose recv met a connection reset, are told apart by `failed`; this is
\* the first.
C24_Witness ==
    /\ send.at = "done"
    /\ send.had_sock
    /\ send.failed = "write"
    /\ send.cause.class = "BrokenPipeError"
    /\ send.written = <<>>
    /\ sock = None

\* C25 as stated: an execute_blender_code call has been refused as
\* disabled exactly when the toggle in the environment at the time of the
\* call was not "true" (in any case; unset counts as "true").
C25_Original_ToggleReadPerCall ==
    tool.name = "execute_blender_code" =>
        (tool.returned = "Security validation failed: Code execution is disabled. Set BLENDERFORGE_ALLOW_CODE_EXECUTION=true to enable."
         <=> tool.env \notin {NoField, "true", "True"})

\* C25, amended: the toggle is read once, when server.py is imported; an
\* execute_blender_code call has been refused as disabled exactly when the
\* value read then was not "true", whatever the environment holds at the
\* time of the call.
C25_ToggleReadAtImport ==
    /\ CODE_EXECUTION_ENABLED = (tool.imported \in {NoField, "true", "True"})
    /\ tool.name = "execute_blender_code" =>
           (tool.returned = "Security validation failed: Code execution is disabled. Set BLENDERFORGE_ALLOW_CODE_EXECUTION=true to enable."
            <=> tool.imported \notin {NoField, "true", "True"})

\* The second call ran clean code after the toggle had been switched from
\* "true" to "false", and the code was sent for execution.
C25_Witness ==
    /\ tool.name = "execute_blender_code"
    /\ tool.n = 2
    /\ tool.imported = "true"
    /\ tool.env = "false"
    /\ tool.sent = <<"execute_code">>
    /\ tool.returned = "Code executed successfully: 4"

\* C26: a call of an advanced-feature tool has not raised; when
\* get_blender_connection, the parsing of its JSON argument or send_command
\* failed, it has returned the JSON text of {"error": "<label>: <message of
\* the failure>"}, and for an unparseable argument the tool's Command was
\* never passed to send_command; otherwise it has passed its Command once
\* and returned the JSON text (indent 2) of the mapping send_command
\* returned.
C26_WrappersAreTotal ==
    tool.name \in {"add_modifier", "extrude_faces", "render_image"} =>
        /\ ~tool.raised
        /\ tool.failure \in {"none", "connection", "parse", "send"}
        /\ tool.failure = "connection" =>
               /\ tool.cause = "Could not connect to Blender. Make sure the Blender addon is running."
               /\ tool.sent = <<>>
        /\ tool.failure = "parse" =>
               /\ tool.cause = "Expecting value: line 1 column 1 (char 0)"
               /\ tool.sent = <<>>
        /\ tool.failure = "send" =>
               /\ tool.cause \in
                      {"Not connected to Blender",
                       "Communication error with Blender: Object not found"}
               /\ tool.sent = <<tool.name>>
        /\ tool.failure # "none" =>
               tool.returned =
                   "{\"error\": \""
                   \o (CASE tool.name = "add_modifier" ->
                                "Error adding modifier"
                         [] tool.name = "extrude_faces" ->
                                "Error extruding faces"
                         [] tool.name = "render_image" ->
                                "Error rendering image")
                   \o ": " \o tool.cause \o "\"}"
        /\ tool.failure = "none" =>
               /\ tool.sent = <<tool.name>>
               /\ tool.value = "{}" => tool.returned = "{}"
               /\ tool.value = "{\"name\": \"Bevel\"}" =>
                      tool.returned = "{\n  \"name\": \"Bevel\"\n}"
               /\ tool.value \in {"{}", "{\"name\": \"Bevel\"}",
                                  "{\"executed\": true, \"result\": \"4\"}"}

\* extrude_faces was called with face indices that are not JSON: it has
\* returned the error text and sent nothing.
C26_Witness ==
    /\ tool.name = "extrude_faces"
    /\ tool.arg = "invalid"
    /\ tool.sent = <<>>
    /\ ~tool.raised
    /\ tool.returned =
           "{\"error\": \"Error extruding faces: Expecting value: line 1 column 1 (char 0)\"}"

\* C27: an accept thread whose listener's running flag has been cleared
\* ends, and between the clearing of the flag and its end at most one of
\* its accept calls returns (with a timeout, an error, or a connection that
\* was already waiting), given that the thread keeps being scheduled.
C27_AcceptLoopObservesStop ==
    /\ [](\A i \in 1..MaxInstances : loops[i].late <= 1)
    /\ \A i \in 1..MaxInstances :
           (loops[i].pc \in {"begin", "check", "accept"} /\ ~RunningOf(i))
               ~> (loops[i].pc = "exited")

\* The accept thread of the first listener has ended after one accept call
\* that returned after the stop, and a second listener is running.
C27_Witness ==
    /\ loops[1].pc = "exited"
    /\ loops[1].late = 1
    /\ blenderforge_server = 2
    /\ running

\* C28: a recv that returns no bytes ends the receiver's loop at once (no
\* second zero-byte read follows).  The listener's reader has then closed
\* its socket and registered nothing beyond the Commands that had parsed
\* before, whatever is left in its accumulator; receive_full_response has
\* raised, its chunks not being a complete document (a complete one would
\* have been returned by the read that completed it).
C28_ZeroReadIsClosure ==
    /\ zero_reads <= 1
    /\ ended # "no" => zero_reads = 1
    /\ (zero_reads = 1 /\ side = "listener") =>
           /\ ended = "closed"
           /\ conn[1] = "closed"
           /\ Len(decoded) <= Len(docs)
           /\ \A i \in 1..Len(decoded) : decoded[i] = docs[i]
           /\ (wire = <<>> /\ chunks # <<>>) => Len(decoded) < Len(docs)
    /\ (zero_reads = 1 /\ side = "client") =>
           /\ decoded = <<>>
           /\ chunks = <<>> =>
                  ended = "Connection closed before receiving any data"
           /\ chunks # <<>> =>
                  ended = "Incomplete JSON response received"

\* The listener's reader has met the zero-byte read with part of a Command
\* in its accumulator: it has closed and registered nothing.
C28_Witness ==
    /\ side = "listener"
    /\ zero_reads = 1
    /\ chunks # <<>>
    /\ decoded = <<>>
    /\ ended = "closed"
    /\ conn[1] = "closed"

\* C29: every deferred unit that has started executes the Command that
\* had just been parsed when the unit was registered.
C29_UnitDispatchesItsOwnCommand ==
    \A x \in exec : x.cmd = x.sched

\* C30: while the listener is stopped (stop() has returned and start()
\* has not been called since), no deferred unit that starts invokes a
\* handler.
C30_NoDispatchAfterStop ==
    [][~running => \A x \in exec' \ exec : x.res.invoked = NoHandler]_vars

\* C31: whenever no start() or stop() call is in progress, running is true
\* exactly when the listening socket is held and exactly when a token is
\* published in the environment, and the published token is the listener's
\* own; a listener that is not running has no live accept thread.  So a
\* start() that has returned with the listener not running (its bind
\* failed) has left no socket, no accept thread and no published token.
C31_LifecycleFactsAgree ==
    pc = "idle" =>
        /\ running <=> socket = "listening"
        /\ running <=> environ # NoField
        /\ running => (environ = auth_token /\ server_thread = "alive")
        /\ ~running => (socket = None /\ server_thread # "alive"
                        /\ environ = NoField)

\* A first start() has returned and the listener is not running: its bind
\* failed.
C31_Witness ==
    /\ pc = "idle"
    /\ trace = <<"start">>
    /\ ~running
    /\ socket = None
    /\ environ = NoField

\* C32: after any sequence of Start-server and Stop-server operator
\* executions, the scene flag blenderforge_server_running is true only if
\* a listener instance exists and its running flag is true.
C32_SceneFlagMeansRunning ==
    (pc = "idle" /\ blenderforge_server_running)
        => (blenderforge_server # 0 /\ running)

(***************************************************************************)
(* One listener object restarted: start() and stop() called again and      *)
(* again on the same instance, with every accept thread it has started.    *)
(* loops[i] is the i-th thread started by start(); all of them read the    *)
(* running flag and the socket attribute of the one object.                *)
(***************************************************************************)

\* The accept threads start() has created so far.
StartedLoops == {i \in 1..MaxInstances : loops[i].pc # "none"}

\* The thread self.server_thread refers to: the last one created.
CurrentLoop == Cardinality(StartedLoops)

\* A thread of an earlier start(): start() has created another since.
Superseded(i) == i \in StartedLoops /\ i < CurrentLoop

\* start() on the one listener: nothing when running; otherwise the socket,
\* a new accept thread and the token, or, when the bind fails, stop().
listener_start(bind_ok) ==
    /\ pc = "idle"
    /\ (~running /\ bind_ok) => CurrentLoop < MaxInstances
    /\ IF running
       THEN UNCHANGED <<running, socket, server_thread, environ, loops>>
       ELSE IF bind_ok
       THEN /\ running' = TRUE
            /\ socket' = "listening"
            /\ server_thread' = "alive"
            /\ environ' = auth_token
            /\ loops' = [loops EXCEPT ![CurrentLoop + 1].pc = "begin"]
       ELSE /\ running' = running_after_failed_bind
            /\ socket' = None
            /\ server_thread' = None
            /\ environ' = NoField
            /\ loops' = loops
    /\ UNCHANGED <<pc, trace, auth_token, connvars, framevars, clientvars,
                   blenderforge_server, blenderforge_server_running,
                   generated, retired>>

\* stop() up to server_thread.join(timeout=1.0).
listener_stop ==
    /\ pc = "idle"
    /\ running' = FALSE
    /\ socket' = None
    /\ IF server_thread = "alive" /\ loops[CurrentLoop].pc # "exited"
       THEN /\ pc' = "join"
            /\ UNCHANGED <<server_thread, environ>>
       ELSE /\ pc' = pc
            /\ server_thread' = None
            /\ environ' = NoField
    /\ UNCHANGED <<trace, auth_token, connvars, framevars, clientvars,
                   blenderforge_server, blenderforge_server_running,
                   generated, retired, loops>>

\* The join returns, because the thread has ended or because the second is
\* over (timed_out); stop() forgets the thread either way and finishes.
listener_join(timed_out) ==
    /\ pc = "join"
    /\ timed_out <=> loops[CurrentLoop].pc # "exited"
    /\ server_thread' = None
    /\ environ' = NoField
    /\ pc' = "idle"
    /\ UNCHANGED <<running, socket, trace, auth_token, connvars, framevars,
                   clientvars, blenderforge_server,
                   blenderforge_server_running, generated, retired, loops>>

\* _server_loop begins: self.socket.settimeout(1.0), outside any try, so a
\* socket attribute that stop() has already cleared ends the thread.
server_loop_begin(i) ==
    /\ loops[i].pc = "begin"
    /\ loops' = [loops EXCEPT ![i].pc = IF socket = None THEN "exited"
                                        ELSE "check"]
    /\ UNCHANGED <<running, auth_token, connvars, framevars, clientvars>>
    /\ UNCHANGED <<socket, server_thread, environ, pc, trace,
                   blenderforge_server, blenderforge_server_running,
                   generated, retired>>

\* `while self.running`: the flag of the object, whichever call set it.
\* late records that a superseded thread went on into another iteration.
server_loop_check(i) ==
    /\ loops[i].pc = "check"
    /\ loops' = [loops EXCEPT
                   ![i].pc = IF running THEN "accept" ELSE "exited",
                   ![i].late = IF running /\ Superseded(i) THEN 1 ELSE @]
    /\ UNCHANGED <<running, auth_token, connvars, framevars, clientvars>>
    /\ UNCHANGED <<socket, server_thread, environ, pc, trace,
                   blenderforge_server, blenderforge_server_running,
                   generated, retired>>

\* self.socket.accept() on the socket the object holds now: a connection,
\* a timeout, or an exception (the only outcome without a socket), each
\* followed by the test of the loop.
server_loop_accept(i, outcome) ==
    /\ loops[i].pc = "accept"
    /\ socket = None => outcome = "OSError"
    /\ loops' = [loops EXCEPT
                   ![i].pc = IF outcome = "TimeoutError" THEN after_timeout
                             ELSE "check"]
    /\ IF outcome = "client"
       THEN \E c \in Conns :
                /\ conn[c] = "idle"
                /\ \A d \in Conns : d < c => conn[d] # "idle"
                /\ conn' = [conn EXCEPT ![c] = "open"]
       ELSE conn' = conn
    /\ UNCHANGED <<stream, buffer, command, timers, exec, sent, answered,
                   pipelined, flags>>
    /\ UNCHANGED <<running, auth_token, framevars, clientvars>>
    /\ UNCHANGED <<socket, server_thread, environ, pc, trace,
                   blenderforge_server, blenderforge_server_running,
                   generated, retired>>

NextRestart ==
    \/ \E bind_ok \in BOOLEAN : listener_start(bind_ok)
    \/ listener_stop
    \/ \E timed_out \in BOOLEAN : listener_join(timed_out)
    \/ \E i \in 1..MaxInstances : server_loop_begin(i)
    \/ \E i \in 1..MaxInstances : server_loop_check(i)
    \/ \E i \in 1..MaxInstances, outcome \in AcceptOutcomes :
           server_loop_accept(i, outcome)

SpecRestart == InitLife /\ [][NextRestart]_vars

\* C33: for any sequence of start() and stop() calls on one listener
\* instance, at most one accept thread of the instance is alive and
\* looping: once start() has created a later thread, no thread of an
\* earlier start() finds the loop condition true and goes into another
\* iteration.
C33_OneAcceptLoop ==
    \A i \in 1..MaxInstances : loops[i].late = 0

\* C34: a send_command that has raised because the listener answered with
\* a Response of status error has left the manager with its socket, and
\* the send_command after it starts connected and writes on that same
\* socket, without opening another.
C34_ErrorResponseKeepsConnection ==
    /\ (send.at = "done" /\ send.response.status = "error") =>
           /\ send.raised = "Exception"
           /\ sock # None
    /\ (send.n > 0 /\ send.prev_failed = "document") =>
           /\ send.had_sock
           /\ \A i \in 1..Len(send.written) :
                  send.written[i].on = send.prev_on

(***************************************************************************)
(* One caller, one manager and a started listener, end to end.  A Command  *)
(* and the Response written for it carry the number of the send_command    *)
(* call that sent the Command (the program has no such field: it is how    *)
(* the model tells Responses apart).  The socket the manager opens as its  *)
(* k-th is connection k of the listener.  A handler may take longer than   *)
(* the caller waits, so a Response may be written after its call has timed *)
(* out.                                                                    *)
(***************************************************************************)
ReplyStatuses == {"success", "error"}

listener_vars == <<running, auth_token, flags, buffer, sent, answered,
                   pipelined, lifevars, framevars>>

\* send_command up to the end of sendall: connect() first when the manager
\* has no socket (the listener accepts it), then the Command is written.
caller_send(type) ==
    /\ send.at = "done"
    /\ send.n < MaxSends
    /\ sock = None => opened < NumConns
    /\ LET on == IF sock = None THEN opened + 1 ELSE opened
       IN  /\ opened' = on
           /\ sock' = "connected"
           /\ conn' = [conn EXCEPT ![on] = "open"]
           /\ stream' = [stream EXCEPT
                           ![on] = Append(@, [type |-> type,
                                              call |-> send.n + 1])]
           /\ send' = [NoSend EXCEPT
                         !.at = "reading", !.type = type, !.n = send.n + 1,
                         !.written = <<[cmd |-> SendCommand(type),
                                        on |-> on]>>,
                         !.had_sock = sock # None,
                         !.opened_before = opened,
                         !.prev_failed = send.failed,
                         !.prev_on = LastWrittenOn]
    /\ UNCHANGED <<client_auth_token, client_environ, call, closes, toolvars,
                   blender_connection, polyhaven_enabled, gbc, replies>>
    /\ UNCHANGED <<command, timers, exec, listener_vars>>

\* receive_full_response returns the next document on the manager's
\* socket; send_command returns its result or raises for its status.
caller_read ==
    /\ send.at = "reading"
    /\ replies[opened] # <<>>
    /\ LET response == Head(replies[opened])
           e == response_raises(response)
       IN  /\ replies' = [replies EXCEPT ![opened] = Tail(@)]
           /\ sock' = IF e # NoException /\ except_resets_sock(e) THEN None
                      ELSE sock
           /\ send' = [send EXCEPT
                         !.at = "done", !.response = response,
                         !.raised = IF e = NoException THEN "none"
                                    ELSE "Exception",
                         !.failed = IF e = NoException THEN "none"
                                    ELSE "document"]
    /\ UNCHANGED <<client_auth_token, client_environ, call, closes, opened,
                   toolvars, blender_connection, polyhaven_enabled, gbc>>
    /\ UNCHANGED <<conn, stream, command, timers, exec, listener_vars>>

\* The 180 seconds of receive_full_response pass without a byte.
caller_timeout ==
    /\ send.at = "reading"
    /\ replies[opened] = <<>>
    /\ LET e == receive_full_response_raises("timeout_empty")
       IN  /\ sock' = IF except_resets_sock(e) THEN None ELSE sock
           /\ send' = [send EXCEPT
                         !.at = "done", !.raised = "Exception",
                         !.failed = "timeout_empty", !.cause = e]
    /\ UNCHANGED <<client_auth_token, client_environ, call, closes, opened,
                   toolvars, sessionvars>>
    /\ UNCHANGED <<conn, stream, command, timers, exec, listener_vars>>

\* _handle_client on connection c: the Command is read and parsed, bound to
\* `command` of that reader's frame, and its execute_wrapper registered.
reader_parse(c) ==
    /\ conn[c] = "open"
    /\ stream[c] # <<>>
    /\ stream' = [stream EXCEPT ![c] = Tail(@)]
    /\ command' = [command EXCEPT ![c] = Head(stream[c])]
    /\ timers' = Append(timers, [conn |-> c, call |-> Head(stream[c]).call])
    /\ UNCHANGED <<conn, exec, listener_vars, clientvars>>

\* The main thread runs the first registered execute_wrapper, which reads
\* `command` of its reader's frame and enters the handler.
timer_begin ==
    /\ exec = {}
    /\ timers # <<>>
    /\ timers' = Tail(timers)
    /\ exec' = {[conn |-> Head(timers).conn,
                 call |-> command[Head(timers).conn].call]}
    /\ UNCHANGED <<conn, stream, command, listener_vars, clientvars>>

\* The handler returns and execute_wrapper writes the Response on the
\* socket of its reader.
timer_end(status) ==
    /\ \E x \in exec :
           /\ exec' = {}
           /\ replies' = [replies EXCEPT
                  ![x.conn] = Append(@,
                      [status |-> status,
                       result |-> IF status = "success" THEN SendResult
                                  ELSE NoField,
                       message |-> IF status = "error"
                                   THEN "Object not found" ELSE NoField,
                       call |-> x.call])]
    /\ UNCHANGED <<sock, client_auth_token, client_environ, call, closes,
                   send, opened, toolvars, blender_connection,
                   polyhaven_enabled, gbc>>
    /\ UNCHANGED <<conn, stream, command, timers, listener_vars>>

NextAttribution ==
    \/ \E type \in SendTypes : caller_send(type)
    \/ caller_read
    \/ caller_timeout
    \/ \E c \in Conns : reader_parse(c)
    \/ timer_begin
    \/ \E status \in ReplyStatuses : timer_end(status)

SpecAttribution == InitDisconnect /\ [][NextAttribution]_vars

\* C35: whenever a send_command has returned a result or raised from a
\* Response, that Response is the one the listener wrote for the Command
\* of that same call.
C35_ResponseAnswersItsCall ==
    send.response.status # NoField => send.response.call = send.n

\* A first call timed out while its handler ran; its Response was written
\* afterwards on the first socket and is still there, and the second call
\* has read the Response to its own Command on the second socket.
C35_Witness ==
    /\ send.n = 2
    /\ send.at = "done"
    /\ send.prev_failed = "timeout_empty"
    /\ send.response.status = "success"
    /\ send.response.call = 2
    /\ Len(replies[1]) = 1
    /\ replies[1][1].call = 1
    /\ opened = 2

(***************************************************************************)
(* get_blender_connection: the global manager of server.py, its cached     *)
(* PolyHaven flag, the listener behind the operators and the PolyHaven     *)
(* checkbox of the panel.  A call is one step; what the ping and the       *)
(* connect meet are inputs, within what the listener's state allows.       *)
(***************************************************************************)
MaxGets == 3

PingOutcomes == {"ok", "raises"}

\* A get_blender_connection that leaves the manager it could not connect.
connection_after_failed_connect_kept == "manager"

\* _blender_connection after a connect() that returned False.
connection_after_failed_connect == None

\* get_blender_connection().  ping: how send_command("get_polyhaven_status")
\* on the existing manager ends (it connects first when the manager has no
\* socket); connect_ok: whether connect() of a new manager succeeds.
get_blender_connection(ping, connect_ok) ==
    /\ gbc.n < MaxGets
    /\ pc = "idle"
    /\ LET had == blender_connection # None
           pinged == had /\ ping = "ok"
       IN  /\ ~had => ping = "raises"
           /\ pinged => (sock # None \/ socket = "listening")
           /\ pinged => ~connect_ok
           /\ connect_ok => socket = "listening"
           /\ IF pinged
              THEN /\ polyhaven_enabled' = get_polyhaven_status(flags).enabled
                   /\ blender_connection' = blender_connection
                   /\ sock' = "connected"
                   /\ opened' = IF sock = None THEN opened + 1 ELSE opened
                   /\ client_auth_token' =
                          IF sock = None THEN getenv ELSE client_auth_token
              ELSE /\ polyhaven_enabled' = polyhaven_enabled
                   /\ IF connect_ok
                      THEN /\ blender_connection' = "manager"
                           /\ sock' = "connected"
                           /\ opened' = opened + 1
                           /\ client_auth_token' = getenv
                      ELSE /\ blender_connection' =
                                  connection_after_failed_connect
                           /\ sock' = None
                           /\ opened' = opened
                           /\ client_auth_token' = None
           /\ gbc' = [n |-> gbc.n + 1,
                      outcome |-> IF pinged \/ connect_ok THEN "returned"
                                  ELSE "raised",
                      path |-> IF pinged THEN "ping"
                               ELSE IF connect_ok THEN "fresh" ELSE "failed",
                      had |-> had,
                      enabled |-> flags["polyhaven"]]
    /\ UNCHANGED <<client_environ, call, closes, send, toolvars, replies>>
    /\ UNCHANGED <<running, auth_token, connvars, lifevars, framevars>>

\* A send_command of a tool on the global manager fails: the except chain
\* resets the manager's socket, the global keeps the manager.
tool_send_fails ==
    /\ blender_connection # None
    /\ sock # None
    /\ sock' = IF except_resets_sock(Exc("TimeoutError", "timed out"))
               THEN None ELSE sock
    /\ UNCHANGED <<client_auth_token, client_environ, call, closes, send,
                   opened, toolvars, sessionvars>>
    /\ UNCHANGED <<running, auth_token, connvars, lifevars, framevars>>

NextManager ==
    \/ \E bind_ok \in BOOLEAN : StartServer(bind_ok)
    \/ StopServer
    \/ \E f \in ToggledFeatures : Toggle(f)
    \/ \E ping \in PingOutcomes, connect_ok \in BOOLEAN :
           get_blender_connection(ping, connect_ok)
    \/ tool_send_fails

SpecManager == InitClient /\ [][NextManager]_vars

\* C36: a get_blender_connection that returns leaves the global manager
\* set and connected, after a successful get_polyhaven_status exchange on
\* the manager it found or a successful connect of a new one; one that
\* raises leaves the global manager None, and the call after it finds no
\* manager.
C36_ReturnsConnectedOrLeavesNone ==
    [][gbc'.n = gbc.n + 1 =>
         /\ gbc'.outcome = "returned" =>
                /\ blender_connection' = "manager"
                /\ sock' = "connected"
                /\ \/ gbc'.path = "ping" /\ gbc'.had
                   \/ gbc'.path = "fresh" /\ opened' = opened + 1
         /\ gbc'.outcome = "raised" =>
                /\ blender_connection' = None
                /\ sock' = None
         /\ gbc.outcome = "raised" => ~gbc'.had]_vars

\* The global manager was there, its ping failed, the connect of its
\* replacement failed too: the call raised and the global is None.
C36_Witness ==
    /\ gbc.outcome = "raised"
    /\ gbc.had
    /\ gbc.n = 2
    /\ blender_connection = None

\* C37: whenever get_blender_connection returns, the cached
\* _polyhaven_enabled equals the listener's PolyHaven flag at that time,
\* also when the call created the connection.
C37_CachedFlagIsListenersFlag ==
    [][(gbc'.n = gbc.n + 1 /\ gbc'.outcome = "returned")
          => polyhaven_enabled' = flags'["polyhaven"]]_vars

(***************************************************************************)
(* From a tool wrapper's call to the handler's parameters.  A wrapper      *)
(* builds the params mapping of its Command; the listener looks the type   *)
(* up in the dispatch table and calls handler( **params ), which binds the *)
(* keys of params to the handler's keyword parameters before its body      *)
(* runs.  What matters of params is its set of keys; `given` says whether  *)
(* the wrapper's optional argument was passed (and is truthy).             *)
(***************************************************************************)
DispatchTools ==
    {"get_polyhaven_categories", "add_modifier", "join_objects",
     "insert_keyframe", "set_animation_range", "create_turntable"}

\* The keys of the params mapping the wrapper passes to send_command.
wrapper_params(name, given) ==
    CASE name = "get_polyhaven_categories" -> {"asset_type"}
      [] name = "add_modifier" ->
             {"object_name", "modifier_type"}
               \cup (IF given THEN {"settings"} ELSE {})
      [] name = "join_objects" -> {"object_names"}
      [] name = "insert_keyframe" ->
             {"object_name", "data_path", "frame"}
               \cup (IF given THEN {"value"} ELSE {})
      [] name = "set_animation_range" -> {"start_frame", "end_frame", "fps"}
      [] name = "create_turntable" -> {"object_name", "frames", "axis"}

\* Whether the wrapper has an optional argument that changes its params.
HasOptional(name) == name \in {"add_modifier", "insert_keyframe"}

\* The parameters of the handler methods after self: those without a
\* default and those with one.
signature(type) ==
    CASE type = "get_polyhaven_categories" ->
             [required |-> {"asset_type"}, optional |-> {}]
      [] type = "add_modifier" ->
             [required |-> {"object_name", "modifier_type"},
              optional |-> {"settings"}]
      [] type = "join_objects" ->
             [required |-> {"object_names"}, optional |-> {"result_name"}]
      [] type = "insert_keyframe" ->
             [required |-> {"object_name", "data_path", "frame"},
              optional |-> {"value"}]
      [] type = "set_animation_range" ->
             [required |-> {"start_frame", "end_frame"}, optional |-> {}]
      [] type = "create_turntable" ->
             [required |-> {"object_name"}, optional |-> {"frames", "axis"}]

\* The keys handler( **params ) cannot bind.
unexpected(type, keys) ==
    keys \ (signature(type).required \cup signature(type).optional)

\* Whether handler( **params ) raises TypeError: a key without a parameter,
\* or a parameter without default and without key.
bind_raises(type, keys) ==
    \/ unexpected(type, keys) # {}
    \/ ~(signature(type).required \subseteq keys)

\* str(e) of the TypeError for the one mismatch among these handlers.
BindTypeError(type, keys) ==
    IF type = "set_animation_range" /\ "fps" \in keys
    THEN "BlenderForgeServer.set_animation_range() got an unexpected keyword argument 'fps'"
    ELSE "TypeError"

\* The lookup in `handlers` and the try around handler( **params ); the
\* handlers here catch what their bodies raise and return a mapping.
dispatch_params(type, keys, fl) ==
    IF type \notin handlers(fl) THEN UnknownType(type)
    ELSE IF bind_raises(type, keys)
    THEN ErrorResponse(BindTypeError(type, keys))
    ELSE SuccessResponse(OkResult)

\* A tool wrapper is called and passes its Command to send_command.
wrapper_call(name, given) ==
    /\ tool.n < MaxToolCalls
    /\ tool.n > 0 => tool.at = "answered"
    /\ given => HasOptional(name)
    /\ tool' = [name |-> name, n |-> tool.n + 1, given |-> given,
                at |-> "sent", type |-> name,
                params |-> wrapper_params(name, given),
                unexpected |-> {}, response |-> NoResponse]
    /\ UNCHANGED <<code_environ, CODE_EXECUTION_ENABLED, sessionvars>>
    /\ UNCHANGED <<sock, client_auth_token, client_environ, call, closes,
                   send, opened>>
    /\ UNCHANGED <<running, auth_token, connvars, lifevars, framevars>>

\* The listener executes the Command and the Response reaches the wrapper.
wrapper_answered ==
    /\ tool.n > 0
    /\ tool.at = "sent"
    /\ tool' = [tool EXCEPT
                  !.at = "answered",
                  !.unexpected = unexpected(tool.type, tool.params),
                  !.response = dispatch_params(tool.type, tool.params,
                                               flags)]
    /\ UNCHANGED <<code_environ, CODE_EXECUTION_ENABLED, sessionvars>>
    /\ UNCHANGED <<sock, client_auth_token, client_environ, call, closes,
                   send, opened>>
    /\ UNCHANGED <<running, auth_token, connvars, lifevars, framevars>>

InitDispatch ==
    /\ running = TRUE
    /\ auth_token = Token
    /\ Started
    /\ flags \in AllFlagValues
    /\ conn = [c \in Conns |-> "idle"]
    /\ stream = [c \in Conns |-> <<>>]
    /\ buffer = [c \in Conns |-> <<>>]
    /\ command = [c \in Conns |-> Unbound]
    /\ timers = <<>>
    /\ exec = {}
    /\ sent = [c \in Conns |-> 0]
    /\ answered = [c \in Conns |-> 0]
    /\ pipelined = [c \in Conns |-> FALSE]

NextDispatch ==
    \/ \E name \in DispatchTools, given \in BOOLEAN : wrapper_call(name, given)
    \/ wrapper_answered

SpecDispatch == InitDispatch /\ [][NextDispatch]_vars

\* C38: the Command of a tool wrapper has a type the dispatch table holds
\* (for a PolyHaven tool, when the PolyHaven flag is on) and params whose
\* every key is a keyword parameter of the handler, so that it is not
\* answered with an error at dispatch; set_animation_range, called with
\* start_frame, end_frame and fps, succeeds.
C38_WrapperParamsBind ==
    (tool.n > 0 /\ tool.at = "answered"
     /\ (tool.name = "get_polyhaven_categories" => flags["polyhaven"])) =>
        /\ tool.unexpected = {}
        /\ tool.response.status = "success"

(***************************************************************************)
(* A connection that never delivers one complete document, beside a       *)
(* well-behaved one.  Connection 1 is followed byte by byte: its peer has  *)
(* written a truncated Command, bytes that are no JSON, or two Commands    *)
(* back to back.  Connection 2 belongs to a client that sends one Command  *)
(* at a time and waits for its Response.                                   *)
(***************************************************************************)
Garbage == {<<"}", "x">>, <<"x">>}

\* The Command connection 1 is sent pieces or pairs of.
StallCommands == {JObj(<< <<<<"t">>, JStr(<<"a">>)>> >>)}

\* Commands the client of connection 2 sends.
MaxWaiting == 1

\* command.get("type"), .get("params"), .get("auth_token") on the samples
\* of the byte-level model, which have none of these keys.
AsCommand(val) ==
    IF val.t = "obj"
    THEN [kind |-> "map", type |-> NoField, params |-> NoField,
          auth_token |-> NoField]
    ELSE NotAMapping

\* _handle_client on connection 1, byte by byte: recv returns the next n
\* bytes; they are appended to buffer; if buffer parses, command is bound,
\* buffer reset and execute_wrapper registered; if not, buffer stays.
handle_client_bytes(n) ==
    /\ side = "listener"
    /\ conn[1] = "open"
    /\ n \in 1..Len(wire)
    /\ LET buf == chunks \o SubSeq(wire, 1, n)
           r == loads(buf)
       IN  /\ wire' = SubSeq(wire, n + 1, Len(wire))
           /\ chunks' = IF r.ok THEN buffer_after_parse(buf) ELSE buf
           /\ decoded' = IF r.ok THEN Append(decoded, r.val) ELSE decoded
           /\ command' = IF r.ok THEN [command EXCEPT ![1] = AsCommand(r.val)]
                         ELSE command
           /\ timers' = IF r.ok
                        THEN Append(timers, [conn |-> 1,
                                             cmd |-> AsCommand(r.val),
                                             toggled |-> FALSE])
                        ELSE timers
    /\ reads' = IF reads < 2 THEN reads + 1 ELSE reads
    /\ straddled' = (straddled \/ Straddles(Received + 1, Received + n))
    /\ UNCHANGED <<docs, side, ended, zero_reads, running, auth_token, flags,
                   conn, stream, buffer, exec, sent, answered, pipelined,
                   lifevars, clientvars>>

\* The client of connection 2 writes a Command when it has the Response to
\* its previous one.
waiting_client_send(cmd) ==
    /\ sent[2] = answered[2]
    /\ sent[2] < MaxWaiting
    /\ ClientSend(2, cmd)

InitStall ==
    /\ side = "listener"
    /\ \/ /\ docs \in {<<d>> : d \in StallCommands}
          /\ \E k \in 1..(Len(dumps(docs[1])) - 1) :
                 wire = SubSeq(dumps(docs[1]), 1, k)
       \/ /\ docs \in {<<d, e>> : d, e \in StallCommands}
          /\ wire = Concat(docs, 1)
       \/ /\ docs = <<>>
          /\ wire \in Garbage
    /\ chunks = <<>>
    /\ decoded = <<>>
    /\ reads = 0
    /\ straddled = FALSE
    /\ ended = "no"
    /\ zero_reads = 0
    /\ NoClient
    /\ running = TRUE
    /\ auth_token = Token
    /\ socket = "listening"
    /\ server_thread = "alive"
    /\ environ = Token
    /\ pc = "idle"
    /\ trace = <<"start">>
    /\ blenderforge_server = 1
    /\ blenderforge_server_running = TRUE
    /\ generated = 1
    /\ retired = {}
    /\ loops = FirstLoop
    /\ flags = [f \in Features |-> FALSE]
    /\ conn = [c \in Conns |-> IF c = 1 THEN "open" ELSE "idle"]
    /\ stream = [c \in Conns |-> <<>>]
    /\ buffer = [c \in Conns |-> <<>>]
    /\ command = [c \in Conns |-> Unbound]
    /\ timers = <<>>
    /\ exec = {}
    /\ sent = [c \in Conns |-> 0]
    /\ answered = [c \in Conns |-> 0]
    /\ pipelined = [c \in Conns |-> FALSE]

NextStall ==
    \/ \E n \in 1..Len(wire) : handle_client_bytes(n)
    \/ \E c \in Conns : server_loop(c)
    \/ \E cmd \in SampleCommands : waiting_client_send(cmd)
    \/ \E n \in 1..MaxCmds : handle_client(2, n)
    \/ \E oc \in SampleOutcomes : WrapperBegin(MainThread, oc)
    \/ WrapperEnd(MainThread)

\* The accept thread and the reader of connection 2 are scheduled, and the
\* main thread runs the registered timers.
SpecStall ==
    /\ InitStall
    /\ [][NextStall]_vars
    /\ WF_vars(server_loop(2))
    /\ WF_vars(\E n \in 1..MaxCmds : handle_client(2, n))
    /\ WF_vars(\E oc \in SampleOutcomes : WrapperBegin(MainThread, oc))
    /\ WF_vars(WrapperEnd(MainThread))

\* The bytes connection 1 receives never form one complete document at the
\* end of a recv: a truncated Command, garbage, or two Commands of which a
\* recv returned the end of the first with bytes of the second.
NeverParses == Len(docs) < 2 \/ straddled

\* s is the beginning of t.
IsPrefix(s, t) == Len(s) <= Len(t) /\ s = SubSeq(t, 1, Len(s))

\* C39: on a connection whose accumulated bytes never parse as one
\* document, nothing is ever dispatched (no Command bound, no timer, no
\* handler run for it), no Response is written, and the accumulator holds
\* every byte received; meanwhile a Command sent on another connection is
\* always answered.
C39_StalledConnectionStallsAlone ==
    /\ [](NeverParses =>
            /\ decoded = <<>>
            /\ command[1] = Unbound
            /\ \A i \in 1..Len(timers) : timers[i].conn # 1
            /\ \A x \in exec : x.conn # 1
            /\ answered[1] = 0
            /\ Len(docs) = 2 => chunks \o wire = Concat(docs, 1)
            /\ Len(docs) = 1 => IsPrefix(chunks \o wire, dumps(docs[1]))
            /\ Len(docs) = 0 => chunks \o wire \in Garbage)
    /\ (NeverParses /\ sent[2] > answered[2]) ~> (answered[2] = sent[2])

\* Connection 1 holds two Commands run together in its accumulator, and
\* connection 2 has had its Command answered.
C39_Witness ==
    /\ Len(docs) = 2
    /\ straddled
    /\ wire = <<>>
    /\ chunks = Concat(docs, 1)
    /\ answered[2] = 1
    /\ answered[1] = 0

(***************************************************************************)
(* The token a manager sends.  BLENDERFORGE_AUTH_TOKEN may change in the   *)
(* manager's environment at any time (unset, empty, or the token of one    *)
(* listener or another); the caller connects, disconnects and sends, one   *)
(* call at a time.                                                         *)
(***************************************************************************)
ClientEnvValues == {NoField, "", TokenOf(1), TokenOf(2)}

\* The variable is set, emptied or removed in the manager's environment.
client_setenv(v) ==
    /\ v # client_environ
    /\ client_environ' = v
    /\ UNCHANGED <<sock, client_auth_token, call, closes, send, opened,
                   toolvars, sessionvars>>
    /\ UNCHANGED <<running, auth_token, connvars, lifevars, framevars>>

\* connect() called between two send_command calls.
caller_connect == send.at = "done" /\ connect(<<>>)

\* disconnect() called between two send_command calls.
caller_disconnect == send.at = "done" /\ disconnect(TRUE)

NextToken ==
    \/ StartServer(TRUE)
    \/ \E v \in ClientEnvValues : client_setenv(v)
    \/ caller_connect
    \/ caller_disconnect
    \/ \E outcome \in {"ok", "ConnectionRefusedError"} :
           connect_attempt(outcome)
    \/ connect_sleep
    \/ send_command("get_scene_info")
    \/ send_write("ok")
    \/ \E response \in SendResponses : send_read("document", response)

SpecToken == InitClient /\ [][NextToken]_vars

\* C40: a connect that opens a socket stores the environment's token as it
\* is then (None when unset); no other step changes the stored token; a
\* Command written by send_command carries the stored token as auth_token,
\* and no auth_token when the stored token is None or empty; connect() on
\* a manager that has a socket returns True at once, opens nothing and
\* leaves the stored token alone.
C40_TokenOfLastConnect ==
    [][/\ opened' = opened + 1 =>
              client_auth_token' = IF client_environ = NoField THEN None
                                   ELSE client_environ
       /\ opened' = opened => client_auth_token' = client_auth_token
       /\ Len(send'.written) = Len(send.written) + 1 =>
              send'.written[Len(send'.written)].cmd.auth_token =
                  IF client_auth_token \in {None, ""} THEN NoField
                  ELSE client_auth_token
       /\ (call'.n = call.n + 1 /\ call'.op = "connect" /\ sock # None) =>
              /\ call'.result = "True"
              /\ call'.at = "done"
              /\ sock' = sock
              /\ opened' = opened
              /\ client_auth_token' = client_auth_token]_vars

\* A connected manager whose environment has since got another token has
\* been told to connect again and has then written a Command: it carries
\* the token of the connect that opened the socket.
C40_Witness ==
    /\ client_auth_token = "tokA"
    /\ client_environ = "tokB"
    /\ opened = 1
    /\ call.op = "send_command"
    /\ call.prev = "connect"
    /\ send.had_sock
    /\ Len(send.written) = 1
    /\ send.written[1].cmd.auth_token = "tokA"

====
